---- MODULE Spec2Model ----
(***************************************************************************)
(* Translation pipeline of dify_recall_test: the adaptive chunker          *)
(* (src/src/translation/pdf_parser.py), the translation backends           *)
(* (src/src/translation/translator.py), the batch orchestrator             *)
(* (src/src/translation/processor.py) and the streamed job with its        *)
(* progress map (src/src/api/translation_api.py).                          *)
(*                                                                         *)
(* A text of the chunker is a sequence of characters, each character a     *)
(* one-element token.  The wide (CJK) full stop U+3002 is written          *)
(* FULLSTOP, the only terminator the splitter ever inserts.                *)
(***************************************************************************)
EXTENDS Integers, Sequences, FiniteSets, TLC

VARIABLES
    \* ---- chunker (PDFParser._apply_smart_chunking) ----
    texts,            \* the unit sequence handed to the chunker
    max_chars,        \* chunking threshold
    min_chars,        \* chunking threshold
    unit_idx,         \* position of the for loop over texts (next unit)
    current_chunk,    \* the pending merge buffer
    chunked_texts,    \* chunks emitted so far
    chunk_pc,         \* "loop" | "done"
    emitted_from,     \* for each emitted chunk, the branch that emitted it
    \* ---- translation backends (translator.py) ----
    provider,         \* TranslationConfig.provider
    api_key,          \* TranslationConfig.api_key: "none" | "invalid" | "valid"
    batch_size,       \* TranslationConfig.batch_size, the configured ceiling
    delay_between_requests, \* TranslationConfig.delay_between_requests, in half seconds
    pipeline_installed, \* transformers.pipeline could be imported
    openai_installed, \* the openai library could be imported
    nllb_config,      \* NLLBTranslator.nllb_config (offline_mode, fallback_models)
    engine_translator, \* TranslationEngine.translator: "none" or the class created
    model_loaded,     \* NLLBTranslator.model_loaded
    translator,       \* NLLBTranslator.translator: "none" or the model loaded
    client,           \* DeepSeek*Translator.client: "none" | "client"
    b_op,             \* operation in progress: "idle" | "translate_batch" | "translate_texts"
    b_texts,          \* argument of the batch operation in progress
    batch_i,          \* outer loop variable i of translate_batch
    batch_j,          \* inner loop position j within the current batch
    dynamic_batch_size, \* value computed by _calculate_dynamic_batch_size
    batch_results,    \* batch_results of the current batch
    results,          \* results accumulated by translate_batch
    pause,            \* what translate_batch slept after its last translate_text call
    ret,              \* what the last finished operation returned or raised
    \* ---- batch orchestrator (processor.py) ----
    pdf_paths,        \* argument of process_multiple_pdfs: the kind of each input file
    keep_temp_files,  \* ProcessingConfig.keep_temp_files
    file_i,           \* loop variable i of process_multiple_pdfs (1-based)
    pdf_pc,           \* position inside process_multiple_pdfs / process_pdf
    parse_result,     \* parse_result of the process_pdf call in progress
    temp_files,       \* temp_files of the process_pdf call in progress
    pdf_error,        \* exception raised inside the try block of process_pdf
    job_results,      \* results accumulated by process_multiple_pdfs
    scratch_docx,     \* owner of <temp_dir>/temp.docx on disk, "none" if absent
    \* ---- streamed jobs (translation_api.py) ----
    progress_storage, \* the job-keyed progress map
    worker,           \* per task id: the state of the code working on that task
    reader,           \* a client of the progress routes and what it last read
    \* ---- bilingual document (formatter.py) ----
    original_texts,   \* argument of create_bilingual_document
    translated_texts, \* argument of create_bilingual_document
    layout,           \* argument of create_bilingual_document
    fmt_pc,           \* position inside create_bilingual_document
    zip_i,            \* pairs of zip(original_texts, translated_texts) consumed
    doc,              \* the Document being built: its blocks in order
    saved_doc,        \* the document written to output_path, NoDoc if none
    fmt_ret,          \* what create_bilingual_document returned
    \* ---- model loading of one NLLBTranslator (translator.py) ----
    load_pc,          \* position inside is_available / translate_text / _initialize_model
    load_caller,      \* the method that called _initialize_model
    attempts,         \* pipeline() calls of the current or last _initialize_model run
    fallback_k,       \* position of the loop of _try_fallback_models
    exhausted,        \* a run of _initialize_model has ended with no model loaded
    load_ret          \* what the last finished call returned or raised

chunkVars == <<texts, max_chars, min_chars, unit_idx, current_chunk,
               chunked_texts, chunk_pc, emitted_from>>

configVars == <<provider, api_key, batch_size, delay_between_requests, pipeline_installed,
                openai_installed, nllb_config>>
instanceVars == <<engine_translator, model_loaded, translator, client>>
batchVars == <<b_op, b_texts, batch_i, batch_j, dynamic_batch_size,
               batch_results, results, pause>>
backendVars == <<configVars, instanceVars, batchVars, ret>>

jobVars == <<pdf_paths, keep_temp_files, file_i, pdf_pc, parse_result, temp_files,
             pdf_error, job_results, scratch_docx>>

streamVars == <<progress_storage, worker, reader>>

formatVars == <<original_texts, translated_texts, layout, fmt_pc, zip_i, doc,
                saved_doc, fmt_ret>>

loadVars == <<load_pc, load_caller, attempts, fallback_k, exhausted, load_ret>>

vars == <<chunkVars, backendVars, jobVars, streamVars, formatVars, loadVars>>

(***************************************************************************)
(* Bounds of the chunker inputs.                                           *)
(***************************************************************************)
MaxTotalChars == 6       \* characters of a whole document
MaxUnits == 2            \* units of a document
\* values of max_chars and min_chars tried (the defaults are 1500 and 50);
\* min_chars reaches and exceeds max_chars
MaxCharsTried == {1, 2, 5}
MinCharsTried == {2, 6}

FULLSTOP == "FULLSTOP"
Space == " "
\* the character class of the split regex, r'[。！？.!?]' (wide forms as tokens)
Terminators == {FULLSTOP, "WIDEBANG", "WIDEQUERY", ".", "!", "?"}
\* characters the model's documents are written in
Alphabet == {"a", Space, "."}

(***************************************************************************)
(* String helpers: str.strip, slicing, concatenation of a list.            *)
(***************************************************************************)
RECURSIVE lstrip(_)
lstrip(s) ==
    IF s # <<>> /\ Head(s) = Space THEN lstrip(Tail(s)) ELSE s

RECURSIVE rstrip(_)
rstrip(s) ==
    IF s # <<>> /\ s[Len(s)] = Space THEN rstrip(SubSeq(s, 1, Len(s) - 1)) ELSE s

strip(s) == rstrip(lstrip(s))

endswith_terminator(s) == s # <<>> /\ s[Len(s)] \in Terminators

RECURSIVE Flatten(_)
Flatten(ss) == IF ss = <<>> THEN <<>> ELSE Head(ss) \o Flatten(Tail(ss))

(***************************************************************************)
(* re.split(r'[terminators]\s*', text): every terminator, together with    *)
(* the whitespace that follows it, is a separator and is removed.          *)
(***************************************************************************)
RECURSIVE skip_ws(_, _)
skip_ws(s, i) == IF i <= Len(s) /\ s[i] = Space THEN skip_ws(s, i + 1) ELSE i

RECURSIVE re_split_from(_, _, _)
re_split_from(s, i, cur) ==
    IF i > Len(s) THEN <<cur>>
    ELSE IF s[i] \in Terminators
         THEN <<cur>> \o re_split_from(s, skip_ws(s, i + 1), <<>>)
         ELSE re_split_from(s, i + 1, Append(cur, s[i]))

re_split(s) == re_split_from(s, 1, <<>>)

(***************************************************************************)
(* PDFParser._force_split_text: slices of max_chars characters, each       *)
(* stripped, blank slices skipped.                                         *)
(***************************************************************************)
RECURSIVE force_split_from(_, _, _)
force_split_from(text, i, mx) ==
    IF i > Len(text) THEN <<>>
    ELSE LET hi == IF i + mx - 1 > Len(text) THEN Len(text) ELSE i + mx - 1
             chunk == SubSeq(text, i, hi)
         IN  (IF strip(chunk) # <<>> THEN <<strip(chunk)>> ELSE <<>>)
                 \o force_split_from(text, i + mx, mx)

_force_split_text(text, mx) == force_split_from(text, 1, mx)

(***************************************************************************)
(* PDFParser._split_long_text: the loop over the sentences, with its       *)
(* accumulator current_chunk.                                              *)
(***************************************************************************)
restore_terminator(sentence) ==
    IF endswith_terminator(sentence) THEN sentence ELSE Append(sentence, FULLSTOP)

fits(test_chunk, mx) == Len(test_chunk) <= mx

RECURSIVE pack_sentences(_, _, _, _)
pack_sentences(sentences, chunks, cur, mx) ==
    IF sentences = <<>>
    THEN IF cur # <<>> THEN Append(chunks, cur) ELSE chunks
    ELSE LET stripped == strip(Head(sentences))
             rest == Tail(sentences)
         IN  IF stripped = <<>>
             THEN pack_sentences(rest, chunks, cur, mx)
             ELSE LET sentence == restore_terminator(stripped)
                      test_chunk == cur \o (IF cur # <<>> THEN <<Space>> ELSE <<>>) \o sentence
                      saved == IF cur # <<>> THEN Append(chunks, cur) ELSE chunks
                  IN  IF fits(test_chunk, mx)
                      THEN pack_sentences(rest, chunks, test_chunk, mx)
                      ELSE IF Len(sentence) > mx
                           THEN pack_sentences(rest, saved \o _force_split_text(sentence, mx), <<>>, mx)
                           ELSE pack_sentences(rest, saved, sentence, mx)

_split_long_text(text, mx) ==
    IF Len(text) <= mx THEN <<text>>
    ELSE pack_sentences(re_split(text), <<>>, <<>>, mx)

(***************************************************************************)
(* Documents of the chunker specification: a character string of at most   *)
(* MaxTotalChars characters cut into at most MaxUnits units.               *)
(***************************************************************************)
CharStrings == UNION {[1..n -> Alphabet] : n \in 0..MaxTotalChars}

CutUnits(flat, cuts) ==
    \* cuts: a sequence of non-decreasing cut positions in 0..Len(flat)
    [k \in 1..(Len(cuts) + 1) |->
        SubSeq(flat,
               (IF k = 1 THEN 0 ELSE cuts[k - 1]) + 1,
               IF k = Len(cuts) + 1 THEN Len(flat) ELSE cuts[k])]

\* the ways to cut flat into at most max_units units: non-decreasing cut
\* positions in 0..Len(flat)
Cuts(flat, max_units) ==
    {c \in UNION {[1..m -> 0..Len(flat)] : m \in 0..(max_units - 1)} :
        \A k \in 1..(Len(c) - 1) : c[k] <= c[k + 1]}

\* a specification that does not exercise the backends keeps them unconstructed
NoDoc == [written |-> FALSE]

NoLoadRet == [op |-> "none"]

LoadUnused ==
    /\ load_pc = "idle"
    /\ load_caller = "none"
    /\ attempts = <<>>
    /\ fallback_k = 0
    /\ exhausted = FALSE
    /\ load_ret = NoLoadRet

FormatUnused ==
    /\ original_texts = <<>>
    /\ translated_texts = <<>>
    /\ layout = "side_by_side"
    /\ fmt_pc = "idle"
    /\ zip_i = 0
    /\ doc = <<>>
    /\ saved_doc = NoDoc
    /\ fmt_ret = "none"

\* delays in half seconds: 1.0 is the default of TranslationConfig, and the
\* reasoner sleeps at least 2.0 after every text
Default_delay_between_requests == 2
Reasoner_min_delay == 4
\* delays tried: 0, 1.0 and 3.0 seconds
DelaysTried == {0, 2, 6}

NoPause == [kind |-> "none", slept |-> 0]

NoRet == [op |-> "none"]
NoModel == [kind |-> "none", index |-> 0]

DefaultNllbConfig ==
    [prefer_local_files |-> TRUE, fallback_to_online |-> TRUE, fallback_models |-> 0]

\* no translator has been created and no batch operation is in progress
BackendIdle ==
    /\ api_key = "none"
    /\ batch_size = 10
    /\ delay_between_requests = Default_delay_between_requests
    /\ pipeline_installed = TRUE
    /\ openai_installed = TRUE
    /\ nllb_config = DefaultNllbConfig
    /\ engine_translator = "none"
    /\ model_loaded = FALSE
    /\ translator = NoModel
    /\ client = "none"
    /\ b_op = "idle"
    /\ b_texts = <<>>
    /\ batch_i = 0
    /\ batch_j = 0
    /\ dynamic_batch_size = 0
    /\ batch_results = <<>>
    /\ results = <<>>
    /\ pause = NoPause
    /\ ret = NoRet

BackendUnused ==
    /\ provider = "nllb"
    /\ BackendIdle

NoParse == [success |-> FALSE, error |-> "not parsed"]

JobUnused ==
    /\ pdf_paths = <<>>
    /\ keep_temp_files = FALSE
    /\ file_i = 1
    /\ pdf_pc = "idle"
    /\ parse_result = NoParse
    /\ temp_files = {}
    /\ pdf_error = "none"
    /\ job_results = <<>>
    /\ scratch_docx = "none"

Tasks == {"t1", "t2"}    \* task ids (uuid4) of the streamed jobs
NoEntry == [status |-> "absent"]
IdleWorker == [pc |-> "idle"]
NoObservation == [status |-> "none", progress |-> 0]
IdleReader == [pc |-> "idle", task |-> "none", last |-> NoObservation]

StreamUnused ==
    /\ progress_storage = [t \in Tasks |-> NoEntry]
    /\ worker = [t \in Tasks |-> IdleWorker]
    /\ reader = IdleReader

ChunkInit ==
    /\ FormatUnused
    /\ LoadUnused
    /\ BackendUnused
    /\ JobUnused
    /\ StreamUnused
    /\ \E flat \in CharStrings : \E cuts \in Cuts(flat, MaxUnits) :
           texts = CutUnits(flat, cuts) \/ texts = <<>>
    /\ max_chars \in MaxCharsTried
    /\ min_chars \in MinCharsTried
    /\ unit_idx = 1
    /\ current_chunk = <<>>
    /\ chunked_texts = <<>>
    /\ chunk_pc = "loop"
    /\ emitted_from = <<>>

Tags(n, tag) == [k \in 1..n |-> tag]

\* the pending buffer is saved before a long or a mid-sized unit
flush_buffer(chunks, cur) == IF cur # <<>> THEN Append(chunks, strip(cur)) ELSE chunks
flush_tags(tags, cur) == IF cur # <<>> THEN Append(tags, "buffer") ELSE tags

\* a merge test that forgets the joining space
merge_fits_no_space(cur, text, mx) == Len(cur) + Len(text) <= mx

\* the test of the merge branch: len(current_chunk + " " + text) <= max_chars
merge_fits(cur, text, mx) == Len(cur) + 1 + Len(text) <= mx

\* for text in texts: text = text.strip(); if not text: continue
ChunkSkipBlank ==
    /\ chunk_pc = "loop" /\ unit_idx <= Len(texts)
    /\ strip(texts[unit_idx]) = <<>>
    /\ unit_idx' = unit_idx + 1
    /\ UNCHANGED <<texts, max_chars, min_chars, current_chunk, chunked_texts,
                   chunk_pc, emitted_from>>
    /\ UNCHANGED <<backendVars, jobVars, streamVars, formatVars, loadVars>>

\* if len(text) > max_chars: flush, split, extend
ChunkLong ==
    /\ chunk_pc = "loop" /\ unit_idx <= Len(texts)
    /\ LET text == strip(texts[unit_idx])
           split_texts == _split_long_text(text, max_chars)
       IN  /\ text # <<>>
           /\ Len(text) > max_chars
           /\ chunked_texts' = flush_buffer(chunked_texts, current_chunk) \o split_texts
           /\ emitted_from' = flush_tags(emitted_from, current_chunk)
                                  \o Tags(Len(split_texts), "split")
    /\ current_chunk' = <<>>
    /\ unit_idx' = unit_idx + 1
    /\ UNCHANGED <<texts, max_chars, min_chars, chunk_pc>>
    /\ UNCHANGED <<backendVars, jobVars, streamVars, formatVars, loadVars>>

\* elif len(text) < min_chars: merge into the buffer, or flush and restart it
ChunkShort ==
    /\ chunk_pc = "loop" /\ unit_idx <= Len(texts)
    /\ LET text == strip(texts[unit_idx])
       IN  /\ text # <<>>
           /\ ~(Len(text) > max_chars)
           /\ Len(text) < min_chars
           /\ IF merge_fits(current_chunk, text, max_chars)
              THEN /\ current_chunk' = current_chunk
                                        \o (IF current_chunk # <<>> THEN <<Space>> ELSE <<>>)
                                        \o text
                   /\ UNCHANGED <<chunked_texts, emitted_from>>
              ELSE /\ chunked_texts' = flush_buffer(chunked_texts, current_chunk)
                   /\ emitted_from' = flush_tags(emitted_from, current_chunk)
                   /\ current_chunk' = text
    /\ unit_idx' = unit_idx + 1
    /\ UNCHANGED <<texts, max_chars, min_chars, chunk_pc>>
    /\ UNCHANGED <<backendVars, jobVars, streamVars, formatVars, loadVars>>

\* else: flush the buffer, emit the unit unchanged
ChunkMid ==
    /\ chunk_pc = "loop" /\ unit_idx <= Len(texts)
    /\ LET text == strip(texts[unit_idx])
       IN  /\ text # <<>>
           /\ ~(Len(text) > max_chars)
           /\ ~(Len(text) < min_chars)
           /\ chunked_texts' = Append(flush_buffer(chunked_texts, current_chunk), text)
           /\ emitted_from' = Append(flush_tags(emitted_from, current_chunk), "mid")
    /\ current_chunk' = <<>>
    /\ unit_idx' = unit_idx + 1
    /\ UNCHANGED <<texts, max_chars, min_chars, chunk_pc>>
    /\ UNCHANGED <<backendVars, jobVars, streamVars, formatVars, loadVars>>

\* after the loop: if current_chunk: chunked_texts.append(current_chunk.strip())
ChunkFinish ==
    /\ chunk_pc = "loop" /\ unit_idx > Len(texts)
    /\ chunked_texts' = flush_buffer(chunked_texts, current_chunk)
    /\ emitted_from' = flush_tags(emitted_from, current_chunk)
    /\ chunk_pc' = "done"
    /\ UNCHANGED <<texts, max_chars, min_chars, unit_idx, current_chunk>>
    /\ UNCHANGED <<backendVars, jobVars, streamVars, formatVars, loadVars>>

ChunkNext ==
    \/ ChunkSkipBlank
    \/ ChunkLong
    \/ ChunkShort
    \/ ChunkMid
    \/ ChunkFinish

SpecChunk == ChunkInit /\ [][ChunkNext]_vars

(***************************************************************************)
(* Properties of the chunker.                                              *)
(***************************************************************************)
NonWs(s) == SelectSeq(s, LAMBDA c : c # Space)

\* out is src with nothing but inserted terminators (FULLSTOP) added
RECURSIVE only_terminators_added(_, _)
only_terminators_added(src, out) ==
    IF out = <<>> THEN src = <<>>
    ELSE \/ /\ src # <<>>
            /\ Head(src) = Head(out)
            /\ only_terminators_added(Tail(src), Tail(out))
         \/ /\ Head(out) = FULLSTOP
            /\ only_terminators_added(src, Tail(out))

\* C3: chunking is content-preserving: once the chunker has finished, the
\* chunk texts concatenated in order, join spaces and inserted sentence
\* terminators ignored, are the non-whitespace characters of the source
\* units in source order; no non-whitespace character is dropped.
C3_ContentPreserving ==
    chunk_pc = "done" =>
        only_terminators_added(NonWs(Flatten(texts)), NonWs(Flatten(chunked_texts)))

\* C4: chunking respects bounds: every chunk emitted so far (flushed merge
\* buffer, mid-sized unit, packed sentence fragments, force-sliced piece) is
\* at most max_chars characters long, for every max_chars >= 1.
C4_ChunkBounds ==
    \A k \in 1..Len(chunked_texts) : Len(chunked_texts[k]) <= max_chars

\* C4: the chunker has finished a document in which an oversized unit was
\* split into several chunks, one of them a group of two sentences (it holds
\* two restored terminators) packed under max_chars
C4_Witness ==
    /\ chunk_pc = "done"
    /\ \E j, k \in 1..Len(emitted_from) :
          /\ j < k /\ emitted_from[j] = "split" /\ emitted_from[k] = "split"
          /\ Len(SelectSeq(chunked_texts[j], LAMBDA c : c = FULLSTOP)) >= 2


(***************************************************************************)
(* Translation backends (translator.py).                                   *)
(*                                                                         *)
(* A text handed to a backend is abstracted to its character count, to     *)
(* whether text.strip() is empty, and to the language it is in; a          *)
(* successful model or API call turns a source text into a target text.    *)
(***************************************************************************)
MaxTexts == 2            \* length of a text list handed to a backend
MaxFallbackModels == 1   \* entries of nllb_config['fallback_models']

TextPool ==
    { [len |-> 0,    blank |-> TRUE,  lang |-> "src"],     \* ""
      [len |-> 2,    blank |-> TRUE,  lang |-> "src"],     \* "  "
      [len |-> 4,    blank |-> FALSE, lang |-> "src"],
      [len |-> 4000, blank |-> FALSE, lang |-> "src"] }

TextLists == UNION {[1..n -> TextPool] : n \in 0..MaxTexts}

Providers == {"nllb", "deepseek", "deepseek-reasoner", "openai", "bogus"}
ApiKeys == {"none", "invalid", "valid"}
BatchSizes == {-1, 0, 1, 3, 10, 20}

translation_of(text) == [text EXCEPT !.lang = "tgt"]

Min(a, b) == IF a <= b THEN a ELSE b
Max(a, b) == IF a >= b THEN a ELSE b

RECURSIVE total_chars(_)
total_chars(ts) == IF ts = <<>> THEN 0 ELSE Head(ts).len + total_chars(Tail(ts))

(***************************************************************************)
(* _calculate_dynamic_batch_size of the three translator classes.          *)
(* int(max_tokens_per_batch / (avg_chars * f)) with avg_chars =            *)
(* total_chars / len(texts) is computed in integers, f given in tenths.    *)
(***************************************************************************)
NLLB_max_tokens_per_batch == 15000
NLLB_tokens_per_char_x10 == 15
NLLB_hard_cap == 5
API_hard_cap_in_NLLB == 20
DeepSeek_max_tokens_per_batch == 12000
DeepSeek_tokens_per_char_x10 == 18
DeepSeek_hard_cap == 15
Reasoner_max_tokens_per_batch == 8000
Reasoner_tokens_per_char_x10 == 25
Reasoner_hard_cap == 5
Reasoner_default_batch == 3

budget_size(ts, max_tokens, per_char_x10) ==
    (max_tokens * Len(ts) * 10) \div (total_chars(ts) * per_char_x10)

\* what NLLBTranslator and DeepSeekTranslator return for an empty list and
\* for texts of no characters: the configured batch size
uncapped_default(bs) == bs

nllb_calculate_dynamic_batch_size(ts, bs, prov) ==
    IF ts = <<>> THEN uncapped_default(bs)
    ELSE IF total_chars(ts) <= 0 THEN uncapped_default(bs)
    ELSE LET dynamic_size ==
                 Max(1, Min(bs, budget_size(ts, NLLB_max_tokens_per_batch,
                                            NLLB_tokens_per_char_x10)))
         IN  IF prov \in {"deepseek", "openai"} THEN Min(dynamic_size, API_hard_cap_in_NLLB)
             ELSE IF prov = "nllb" THEN Min(dynamic_size, NLLB_hard_cap)
             ELSE dynamic_size

deepseek_calculate_dynamic_batch_size(ts, bs) ==
    IF ts = <<>> THEN uncapped_default(bs)
    ELSE IF total_chars(ts) <= 0 THEN uncapped_default(bs)
    ELSE Min(Max(1, Min(bs, budget_size(ts, DeepSeek_max_tokens_per_batch,
                                        DeepSeek_tokens_per_char_x10))),
             DeepSeek_hard_cap)

reasoner_calculate_dynamic_batch_size(ts, bs) ==
    IF ts = <<>> THEN Min(bs, Reasoner_default_batch)
    ELSE IF total_chars(ts) <= 0 THEN Min(bs, Reasoner_default_batch)
    ELSE Min(Max(1, Min(bs, budget_size(ts, Reasoner_max_tokens_per_batch,
                                        Reasoner_tokens_per_char_x10))),
             Reasoner_hard_cap)

_calculate_dynamic_batch_size(cls, ts, bs, prov) ==
    IF cls = "NLLBTranslator" THEN nllb_calculate_dynamic_batch_size(ts, bs, prov)
    ELSE IF cls = "DeepSeekTranslator" THEN deepseek_calculate_dynamic_batch_size(ts, bs)
    ELSE reasoner_calculate_dynamic_batch_size(ts, bs)

hard_cap(cls) ==
    IF cls = "NLLBTranslator" THEN NLLB_hard_cap
    ELSE IF cls = "DeepSeekTranslator" THEN DeepSeek_hard_cap
    ELSE Reasoner_hard_cap

(***************************************************************************)
(* TranslationEngine._create_translator and the translator constructors.   *)
(***************************************************************************)
_initialize_client(cls, key, has_openai) ==
    IF ~has_openai THEN [cls |-> "none", client |-> "none", exc |-> "ImportError"]
    ELSE IF key = "none" THEN [cls |-> "none", client |-> "none", exc |-> "ValueError"]
    ELSE [cls |-> cls, client |-> "client", exc |-> "none"]

_create_translator(prov, key, has_openai) ==
    IF prov = "nllb" THEN [cls |-> "NLLBTranslator", client |-> "none", exc |-> "none"]
    ELSE IF prov = "openai"
         \* OpenAITranslator leaves the abstract methods undefined
         THEN [cls |-> "none", client |-> "none", exc |-> "TypeError"]
    ELSE IF prov = "deepseek" THEN _initialize_client("DeepSeekTranslator", key, has_openai)
    ELSE IF prov = "deepseek-reasoner"
         THEN _initialize_client("DeepSeekReasonerTranslator", key, has_openai)
    ELSE [cls |-> "none", client |-> "none", exc |-> "ValueError"]

\* TranslationEngine._get_translator: create on first use
_get_translator(cur_cls, cur_client, prov, key, has_openai) ==
    IF cur_cls # "none" THEN [cls |-> cur_cls, client |-> cur_client, exc |-> "none"]
    ELSE _create_translator(prov, key, has_openai)

(***************************************************************************)
(* NLLBTranslator._initialize_model and its loading stages.  load says     *)
(* which stages the environment would let succeed: the local cache, the    *)
(* online fetch, the standard (relaxed) load, and the index of the first   *)
(* fallback model that loads (0: none).                                    *)
(***************************************************************************)
PrimaryModel == [kind |-> "primary", index |-> 0]
FallbackModel(k) == [kind |-> "fallback", index |-> k]

LoadOutcomes ==
    [cache : BOOLEAN, online : BOOLEAN, standard : BOOLEAN,
     fallback : 0..MaxFallbackModels]
NoLoad == [cache |-> FALSE, online |-> FALSE, standard |-> FALSE, fallback |-> 0]

_try_fallback_models(n, load) ==
    IF load.fallback \in 1..n THEN FallbackModel(load.fallback) ELSE NoModel

_try_online_loading(cfg, load) ==
    IF load.online THEN PrimaryModel
    ELSE IF load.standard THEN PrimaryModel
    ELSE IF cfg.fallback_models > 0 THEN _try_fallback_models(cfg.fallback_models, load)
    ELSE NoModel

load_stages(cfg, load) ==
    IF cfg.prefer_local_files
    THEN IF load.cache THEN PrimaryModel
         ELSE IF cfg.fallback_to_online THEN _try_online_loading(cfg, load)
         ELSE NoModel
    ELSE _try_online_loading(cfg, load)

\* the state of the translator after _initialize_model, and whether it raised
_initialize_model(loaded, model, cfg, has_pipeline, load) ==
    IF loaded THEN [model_loaded |-> loaded, translator |-> model, raised |-> FALSE]
    ELSE IF ~has_pipeline
         THEN [model_loaded |-> loaded, translator |-> model, raised |-> TRUE]
    ELSE LET m == load_stages(cfg, load)
         IN  IF m # NoModel
             THEN [model_loaded |-> TRUE, translator |-> m, raised |-> FALSE]
             ELSE [model_loaded |-> FALSE, translator |-> NoModel, raised |-> FALSE]

(***************************************************************************)
(* translate_text of the three classes.  call is the outcome of the        *)
(* underlying model or API call: "ok" or "raise".                          *)
(***************************************************************************)
\* a handler that lets the failure of the underlying call escape
on_call_failure_propagates(text) == [value |-> text, raised |-> TRUE]

\* except Exception: log, return text
on_call_failure(text) == [value |-> text, raised |-> FALSE]

nllb_translate_text(text, loaded, model, cfg, has_pipeline, call, load) ==
    IF text.blank
    THEN [value |-> text, raised |-> FALSE, model_loaded |-> loaded, translator |-> model,
          called |-> FALSE, unavailable |-> FALSE]
    ELSE LET init == IF ~loaded
                     THEN _initialize_model(loaded, model, cfg, has_pipeline, load)
                     ELSE [model_loaded |-> loaded, translator |-> model, raised |-> FALSE]
         IN  IF init.raised
             THEN [value |-> text, raised |-> TRUE, model_loaded |-> init.model_loaded,
                   translator |-> init.translator, called |-> FALSE, unavailable |-> TRUE]
             ELSE IF init.translator = NoModel
             THEN [value |-> text, raised |-> FALSE, model_loaded |-> init.model_loaded,
                   translator |-> init.translator, called |-> FALSE, unavailable |-> TRUE]
             ELSE LET r == IF call = "raise" THEN on_call_failure(text)
                           ELSE [value |-> translation_of(text), raised |-> FALSE]
                  IN  [value |-> r.value, raised |-> r.raised,
                       model_loaded |-> init.model_loaded, translator |-> init.translator,
                       called |-> TRUE, unavailable |-> FALSE]

deepseek_translate_text(text, loaded, model, call) ==
    IF text.blank
    THEN [value |-> text, raised |-> FALSE, model_loaded |-> loaded, translator |-> model,
          called |-> FALSE, unavailable |-> FALSE]
    ELSE LET r == IF call = "raise" THEN on_call_failure(text)
                  ELSE [value |-> translation_of(text), raised |-> FALSE]
         IN  [value |-> r.value, raised |-> r.raised, model_loaded |-> loaded,
              translator |-> model, called |-> TRUE, unavailable |-> FALSE]

translate_text(cls, text, loaded, model, cfg, has_pipeline, call, load) ==
    IF cls = "NLLBTranslator"
    THEN nllb_translate_text(text, loaded, model, cfg, has_pipeline, call, load)
    ELSE deepseek_translate_text(text, loaded, model, call)

(***************************************************************************)
(* is_available of the three classes.                                      *)
(***************************************************************************)
nllb_is_available(loaded, model, cfg, has_pipeline, load) ==
    LET init == _initialize_model(loaded, model, cfg, has_pipeline, load)
    IN  IF init.raised
        THEN [value |-> FALSE, model_loaded |-> loaded, translator |-> model]
        ELSE [value |-> init.translator # NoModel, model_loaded |-> init.model_loaded,
              translator |-> init.translator]

deepseek_is_available(key, cl) == key # "none" /\ cl # "none"

is_available(cls, key, cl, loaded, model, cfg, has_pipeline, load) ==
    IF cls = "NLLBTranslator" THEN nllb_is_available(loaded, model, cfg, has_pipeline, load)
    ELSE [value |-> deepseek_is_available(key, cl), model_loaded |-> loaded,
          translator |-> model]


(***************************************************************************)
(* The backend specification: one TranslationEngine with its configuration *)
(* and environment, used through TranslationEngine (translate_texts,       *)
(* translate_single, _get_translator) and through the translator it        *)
(* created (translate_text, translate_batch, is_available).                *)
(***************************************************************************)
ChunkerUnused ==
    /\ texts = <<>>
    /\ max_chars = 1
    /\ min_chars = 0
    /\ unit_idx = 1
    /\ current_chunk = <<>>
    /\ chunked_texts = <<>>
    /\ chunk_pc = "loop"
    /\ emitted_from = <<>>

NllbConfigs ==
    [prefer_local_files : BOOLEAN, fallback_to_online : BOOLEAN,
     fallback_models : 0..MaxFallbackModels]

BackendInit ==
    /\ FormatUnused
    /\ LoadUnused
    /\ ChunkerUnused
    /\ JobUnused
    /\ StreamUnused
    /\ provider \in Providers
    /\ batch_size \in BatchSizes
    /\ delay_between_requests = Default_delay_between_requests
    /\ IF provider = "nllb"
       THEN /\ api_key = "none"
            /\ openai_installed = TRUE
            /\ pipeline_installed \in BOOLEAN
            /\ nllb_config \in NllbConfigs
       ELSE /\ api_key \in ApiKeys
            /\ openai_installed \in BOOLEAN
            /\ pipeline_installed = TRUE
            /\ nllb_config = DefaultNllbConfig
    /\ engine_translator = "none"
    /\ model_loaded = FALSE
    /\ translator = NoModel
    /\ client = "none"
    /\ b_op = "idle"
    /\ b_texts = <<>>
    /\ batch_i = 0
    /\ batch_j = 0
    /\ dynamic_batch_size = 0
    /\ batch_results = <<>>
    /\ results = <<>>
    /\ pause = NoPause
    /\ ret = NoRet

\* outcomes the environment can give to a model or API call: with an invalid
\* credential the remote API rejects every call
CallOutcomes ==
    IF engine_translator # "NLLBTranslator" /\ api_key = "invalid" THEN {"raise"}
    ELSE {"ok", "raise"}

\* loading outcomes matter to the local model only
Loads ==
    IF provider = "nllb"
    THEN {l \in LoadOutcomes : l.fallback <= nllb_config.fallback_models}
    ELSE {NoLoad}

Ret(op, arg, outcome, value, exc, call_raised, unavailable) ==
    [op |-> op, arg |-> arg, outcome |-> outcome, value |-> value, exc |-> exc,
     call_raised |-> call_raised, unavailable |-> unavailable]

Callable == b_op = "idle" /\ ret = NoRet

\* engine._get_translator()
GetTranslator ==
    /\ Callable
    /\ LET g == _get_translator(engine_translator, client, provider, api_key, openai_installed)
       IN  /\ engine_translator' = g.cls
           /\ client' = g.client
           /\ ret' = Ret("get_translator", provider,
                         IF g.exc = "none" THEN "returned" ELSE "raised",
                         g.cls, g.exc, FALSE, g.exc # "none")
    /\ UNCHANGED <<chunkVars, formatVars, loadVars, jobVars, streamVars, configVars, model_loaded, translator, batchVars>>

\* translator.is_available() on the translator the engine created
IsAvailable ==
    /\ Callable
    /\ engine_translator # "none"
    /\ \E load \in Loads :
         LET a == is_available(engine_translator, api_key, client, model_loaded,
                               translator, nllb_config, pipeline_installed, load)
         IN  /\ model_loaded' = a.model_loaded
             /\ translator' = a.translator
             /\ ret' = Ret("is_available", provider, "returned", a.value, "none",
                           FALSE, ~a.value)
    /\ UNCHANGED <<chunkVars, formatVars, loadVars, jobVars, streamVars, configVars, engine_translator, client, batchVars>>

\* translator.translate_text(text) on the translator the engine created
TranslateText ==
    /\ Callable
    /\ engine_translator # "none"
    /\ \E text \in TextPool, call \in CallOutcomes, load \in Loads :
         LET t == translate_text(engine_translator, text, model_loaded, translator,
                                 nllb_config, pipeline_installed, call, load)
         IN  /\ model_loaded' = t.model_loaded
             /\ translator' = t.translator
             /\ ret' = Ret("translate_text", text,
                           IF t.raised THEN "raised" ELSE "returned",
                           t.value,
                           IF t.raised THEN (IF t.called THEN "CallError" ELSE "ImportError")
                           ELSE "none",
                           t.called /\ call = "raise", t.unavailable)
    /\ UNCHANGED <<chunkVars, formatVars, loadVars, jobVars, streamVars, configVars, engine_translator, client, batchVars>>

\* engine.translate_single(text)
TranslateSingle ==
    /\ Callable
    /\ \E text \in TextPool, call \in CallOutcomes, load \in Loads :
         LET g == _get_translator(engine_translator, client, provider, api_key,
                                  openai_installed)
         IN  IF g.exc # "none"
             THEN /\ ret' = Ret("translate_single", text, "raised", text, g.exc, FALSE, TRUE)
                  /\ UNCHANGED <<instanceVars>>
             ELSE LET a == is_available(g.cls, api_key, g.client, model_loaded, translator,
                                        nllb_config, pipeline_installed, load)
                      t == translate_text(g.cls, text, a.model_loaded, a.translator,
                                          nllb_config, pipeline_installed, call, load)
                  IN  /\ engine_translator' = g.cls
                      /\ client' = g.client
                      /\ IF ~a.value
                         THEN /\ model_loaded' = a.model_loaded
                              /\ translator' = a.translator
                              /\ ret' = Ret("translate_single", text, "returned", text,
                                            "none", FALSE, TRUE)
                         ELSE /\ model_loaded' = t.model_loaded
                              /\ translator' = t.translator
                              /\ ret' = Ret("translate_single", text,
                                            IF t.raised THEN "raised" ELSE "returned",
                                            t.value,
                                            IF t.raised THEN "CallError" ELSE "none",
                                            t.called /\ call = "raise", FALSE)
    /\ UNCHANGED <<chunkVars, formatVars, loadVars, jobVars, streamVars, configVars, batchVars>>

\* translator.translate_batch(texts): the batch size is computed and the loop
\* for i in range(0, len(texts), dynamic_batch_size) is entered; a step of 0
\* makes range() raise ValueError
TranslateBatchStart ==
    /\ Callable
    /\ engine_translator # "none"
    /\ \E ts \in TextLists :
         LET dbs == _calculate_dynamic_batch_size(engine_translator, ts, batch_size, provider)
         IN  /\ dynamic_batch_size' = dbs
             /\ b_texts' = ts
             /\ IF dbs = 0
                THEN /\ b_op' = "idle"
                     /\ ret' = Ret("translate_batch", ts, "raised", <<>>, "ValueError",
                                   FALSE, FALSE)
                ELSE /\ b_op' = "translate_batch"
                     /\ ret' = NoRet
    /\ batch_i' = 0
    /\ batch_j' = 0
    /\ batch_results' = <<>>
    /\ results' = <<>>
    /\ pause' = NoPause
    /\ UNCHANGED <<chunkVars, formatVars, loadVars, jobVars, streamVars, configVars, instanceVars>>

FailedTranslation(exc) == [success |-> FALSE, error |-> exc, provider |-> provider]

\* engine.translate_texts(texts) up to the entry of the translate_batch loop;
\* every exception is caught and reported as success = False
TranslateTextsStart ==
    /\ Callable
    /\ \E ts \in TextLists, load \in Loads :
         LET g == _get_translator(engine_translator, client, provider, api_key,
                                  openai_installed)
         IN  IF g.exc # "none"
             THEN /\ ret' = Ret("translate_texts", ts, "returned", FailedTranslation(g.exc),
                                g.exc, FALSE, TRUE)
                  /\ UNCHANGED <<instanceVars, b_op, b_texts, dynamic_batch_size>>
             ELSE LET a == is_available(g.cls, api_key, g.client, model_loaded, translator,
                                        nllb_config, pipeline_installed, load)
                      dbs == _calculate_dynamic_batch_size(g.cls, ts, batch_size, provider)
                  IN  /\ engine_translator' = g.cls
                      /\ client' = g.client
                      /\ model_loaded' = a.model_loaded
                      /\ translator' = a.translator
                      /\ IF ~a.value
                         THEN /\ ret' = Ret("translate_texts", ts, "returned",
                                            FailedTranslation("RuntimeError"),
                                            "RuntimeError", FALSE, TRUE)
                              /\ UNCHANGED <<b_op, b_texts, dynamic_batch_size>>
                         ELSE /\ dynamic_batch_size' = dbs
                              /\ b_texts' = ts
                              /\ IF dbs = 0
                                 THEN /\ b_op' = "idle"
                                      /\ ret' = Ret("translate_texts", ts, "returned",
                                                    FailedTranslation("ValueError"),
                                                    "ValueError", FALSE, FALSE)
                                 ELSE /\ b_op' = "translate_texts"
                                      /\ ret' = NoRet
    /\ batch_i' = 0
    /\ batch_j' = 0
    /\ batch_results' = <<>>
    /\ results' = <<>>
    /\ pause' = NoPause
    /\ UNCHANGED <<chunkVars, formatVars, loadVars, jobVars, streamVars, configVars>>

\* time.sleep after one text of a batch; j counts from 0 within a batch of
\* n texts.  NLLB sleeps after every text if the delay is positive, DeepSeek
\* between the texts of a batch only, the reasoner max(delay, 2.0) after
\* every text.
sleep_after_text(cls, delay, j, n) ==
    IF cls = "NLLBTranslator" THEN (IF delay > 0 THEN delay ELSE 0)
    ELSE IF cls = "DeepSeekTranslator" THEN (IF j < n - 1 THEN delay ELSE 0)
    ELSE Max(delay, Reasoner_min_delay)

\* time.sleep after a batch that is not the last one: NLLB has none,
\* DeepSeek sleeps delay * 0.5, the reasoner delay * 1.5
sleep_between_batches(cls, delay, i, step, len) ==
    IF cls = "NLLBTranslator" \/ ~(i + step < len) THEN 0
    ELSE IF cls = "DeepSeekTranslator" THEN delay \div 2
    ELSE (3 * delay) \div 2

\* all that translate_batch sleeps between the return of the translate_text
\* call on text i + j and the next call, and where the next call is
sleep_after_call(cls, delay, i, j, step, len) ==
    LET n == Min(step, len - i)
        last_of_batch == ~(j + 1 < n)
    IN  [kind |-> IF ~last_of_batch THEN "in_batch"
                  ELSE IF i + step < len THEN "between_batches" ELSE "after_last",
         slept |-> sleep_after_text(cls, delay, j, n)
                     + (IF last_of_batch
                        THEN sleep_between_batches(cls, delay, i, step, len) ELSE 0)]

InBatch == b_op \in {"translate_batch", "translate_texts"}

\* batch = texts[i:i + dynamic_batch_size]
batch_len == Min(dynamic_batch_size, Len(b_texts) - batch_i)

\* one pass of the inner loop: translate_text(text), batch_results.append,
\* the sleep after the text; after the last text of the batch,
\* results.extend(batch_results) and the sleep between batches
BatchCall ==
    /\ InBatch
    /\ dynamic_batch_size > 0
    /\ batch_i < Len(b_texts)
    /\ \E call \in CallOutcomes, load \in Loads :
         LET text == b_texts[batch_i + batch_j + 1]
             t == translate_text(engine_translator, text, model_loaded, translator,
                                 nllb_config, pipeline_installed, call, load)
             appended == Append(batch_results, t.value)
         IN  /\ model_loaded' = t.model_loaded
             /\ translator' = t.translator
             /\ IF t.raised
                THEN /\ b_op' = "idle"
                     /\ ret' = IF b_op = "translate_batch"
                               THEN Ret("translate_batch", b_texts, "raised", results,
                                        "ImportError", FALSE, TRUE)
                               ELSE Ret("translate_texts", b_texts, "returned",
                                        FailedTranslation("ImportError"), "ImportError",
                                        FALSE, TRUE)
                     /\ UNCHANGED <<batch_i, batch_j, batch_results, results, pause>>
                ELSE /\ pause' = sleep_after_call(engine_translator,
                                                  delay_between_requests, batch_i, batch_j,
                                                  dynamic_batch_size, Len(b_texts))
                     /\ IF batch_j + 1 < batch_len
                        THEN /\ batch_j' = batch_j + 1
                             /\ batch_results' = appended
                             /\ UNCHANGED <<batch_i, results>>
                        ELSE /\ results' = results \o appended
                             /\ batch_results' = <<>>
                             /\ batch_i' = batch_i + dynamic_batch_size
                             /\ batch_j' = 0
                     /\ UNCHANGED <<b_op, ret>>
    /\ UNCHANGED <<chunkVars, formatVars, loadVars, jobVars, streamVars, configVars, engine_translator, client, b_texts,
                   dynamic_batch_size>>

\* the range is exhausted (at once when the step is negative): return results
BatchReturn ==
    /\ InBatch
    /\ dynamic_batch_size < 0 \/ batch_i >= Len(b_texts)
    /\ ret' = IF b_op = "translate_batch"
              THEN Ret("translate_batch", b_texts, "returned", results, "none", FALSE, FALSE)
              ELSE Ret("translate_texts", b_texts, "returned",
                       [success |-> TRUE, translated_texts |-> results,
                        original_count |-> Len(b_texts), translated_count |-> Len(results),
                        provider |-> provider],
                       "none", FALSE, FALSE)
    /\ b_op' = "idle"
    /\ UNCHANGED <<chunkVars, formatVars, loadVars, jobVars, streamVars, configVars, instanceVars, b_texts, batch_i, batch_j,
                   dynamic_batch_size, batch_results, results, pause>>

\* the caller has taken the result; the engine and its translator live on
Reset ==
    /\ b_op = "idle"
    /\ ret # NoRet
    /\ ret' = NoRet
    /\ b_texts' = <<>>
    /\ batch_i' = 0
    /\ batch_j' = 0
    /\ dynamic_batch_size' = 0
    /\ batch_results' = <<>>
    /\ results' = <<>>
    /\ pause' = NoPause
    /\ UNCHANGED <<chunkVars, formatVars, loadVars, jobVars, streamVars, configVars, instanceVars, b_op>>

BackendNext ==
    \/ GetTranslator
    \/ IsAvailable
    \/ TranslateText
    \/ TranslateSingle
    \/ TranslateBatchStart
    \/ TranslateTextsStart
    \/ BatchCall
    \/ BatchReturn
    \/ Reset

SpecBackend == BackendInit /\ [][BackendNext]_vars

\* the backends with their libraries installed and a key given, under each
\* of the delays tried
PacingInit ==
    /\ FormatUnused
    /\ LoadUnused
    /\ ChunkerUnused
    /\ JobUnused
    /\ StreamUnused
    /\ provider \in {"nllb", "deepseek", "deepseek-reasoner"}
    /\ batch_size \in {1, 3}
    /\ delay_between_requests \in DelaysTried
    /\ api_key = IF provider = "nllb" THEN "none" ELSE "valid"
    /\ openai_installed = TRUE
    /\ pipeline_installed = TRUE
    /\ nllb_config = DefaultNllbConfig
    /\ engine_translator = "none"
    /\ model_loaded = FALSE
    /\ translator = NoModel
    /\ client = "none"
    /\ b_op = "idle"
    /\ b_texts = <<>>
    /\ batch_i = 0
    /\ batch_j = 0
    /\ dynamic_batch_size = 0
    /\ batch_results = <<>>
    /\ results = <<>>
    /\ pause = NoPause
    /\ ret = NoRet

SpecPacing == PacingInit /\ [][BackendNext]_vars

(***************************************************************************)
(* Properties of the backends.                                             *)
(***************************************************************************)
\* C5: translate_batch is length- and order-preserving for every translator
\* class: whenever a call of translate_batch has ended, it has returned a
\* list as long as its argument whose k-th element is the translation or
\* the echo of the k-th input.
C5_TranslateManyPreserves ==
    ret.op = "translate_batch" =>
        /\ ret.outcome = "returned"
        /\ Len(ret.value) = Len(ret.arg)
        /\ \A k \in 1..Len(ret.arg) :
               ret.value[k] \in {ret.arg[k], translation_of(ret.arg[k])}

\* C6: a translate_text or translate_single call whose underlying model or
\* API call raised has returned its input text; nothing was raised to the
\* caller.
C6_CallFailureEchoes ==
    (ret.op \in {"translate_text", "translate_single"} /\ ret.call_raised) =>
        /\ ret.outcome = "returned"
        /\ ret.value = ret.arg

\* C6: the reasoning translator was asked for a non-blank text, the API call
\* raised, and the call ended
C6_Witness ==
    /\ ret.op = "translate_text"
    /\ engine_translator = "DeepSeekReasonerTranslator"
    /\ ret.call_raised
    /\ ~ret.arg.blank

\* C7: a translate_text or translate_single call on a backend that cannot be
\* used (model runtime missing, no loading stage succeeded, translator not
\* constructible) has returned its input text; nothing was raised.
C7_UnavailableEchoes ==
    (ret.op \in {"translate_text", "translate_single"} /\ ret.unavailable) =>
        /\ ret.outcome = "returned"
        /\ ret.value = ret.arg

\* C8: the batch size a translate_batch loop runs with exceeds neither the
\* configured batch_size nor the hard cap of the translator class.
C8_BatchSizeWithinCaps ==
    InBatch =>
        /\ dynamic_batch_size <= batch_size
        /\ dynamic_batch_size <= hard_cap(engine_translator)

\* C9: with an invalid credential a remote translator reports
\* is_available() = False, and translate_texts, on which a job's outcome
\* rests, reports success = False.
C9_InvalidCredentialUnavailable ==
    (api_key = "invalid" /\ provider \in {"deepseek", "deepseek-reasoner"}) =>
        /\ ret.op = "is_available" => ret.value = FALSE
        /\ ret.op = "translate_texts" => ret.value.success = FALSE


(***************************************************************************)
(* Batch orchestrator (processor.py): BatchProcessor.process_multiple_pdfs *)
(* and BatchProcessor.process_pdf.  An input file is abstracted to its     *)
(* kind: "missing" (no such file), "corrupt" (the converter fails),        *)
(* "empty" (converts, no text unit) and "good" (converts, has text).       *)
(***************************************************************************)
MaxFiles == 3            \* inputs of a process_multiple_pdfs call
MaxUnitsPerFile == 2     \* text units of a "good" input file

FileKinds == {"missing", "corrupt", "empty", "good"}
TempDocx == "temp.docx"

\* a parser that reports every file as converted
parse_pdf_always_succeeds(kind, units) ==
    [success |-> TRUE, temp_docx_path |-> TempDocx,
     document_data |-> [total_paragraphs |-> units], source_pdf |-> kind]

\* PDFParser.parse_pdf: the dictionary it returns
parse_pdf(kind, units) ==
    IF kind = "missing"
    THEN [success |-> FALSE, error |-> "FileNotFoundError", source_pdf |-> kind]
    ELSE IF kind = "corrupt"
    THEN [success |-> FALSE, error |-> "ConversionError", source_pdf |-> kind]
    ELSE [success |-> TRUE, temp_docx_path |-> TempDocx,
          document_data |-> [total_paragraphs |-> IF kind = "empty" THEN 0 ELSE units],
          source_pdf |-> kind]

\* parse_result.get('temp_files', [])
get_temp_files(pr) == IF "temp_files" \in DOMAIN pr THEN pr.temp_files ELSE {}

ProcessingResult(success, input_file, output_files, original, translated, error) ==
    [success |-> success, input_file |-> input_file, output_files |-> output_files,
     original_text_count |-> original, translated_text_count |-> translated,
     provider |-> provider, error |-> error]

\* results.append(result), skipped for a failed result
append_result_if_success(rs, result) ==
    IF result.success THEN Append(rs, result) ELSE rs

\* results.append(result)
append_result(rs, result) == Append(rs, result)

\* BatchProcessor._cleanup_temp_files applied to the scratch file on disk
_cleanup_temp_files(files, on_disk) ==
    IF TempDocx \in files THEN "none" ELSE on_disk

\* the providers _create_translator has a branch for
SupportedProviders == {"nllb", "openai", "deepseek", "deepseek-reasoner"}

\* translation_provider of the ProcessingConfig given to BatchProcessor
JobProviders == {"nllb", "bogus"}

\* BatchProcessor.__init__ stores the configuration and builds the parser,
\* the formatter and TranslationEngine(translation_config);
\* TranslationEngine.__init__ sets translator = None and creates no
\* translator: no provider makes the construction raise
BatchProcessor_init_raises(prov) == FALSE

JobInit ==
    /\ FormatUnused
    /\ LoadUnused
    /\ ChunkerUnused
    /\ provider \in JobProviders
    /\ BackendIdle
    /\ StreamUnused
    /\ pdf_paths \in UNION {[1..n -> FileKinds] : n \in 0..MaxFiles}
    /\ keep_temp_files \in BOOLEAN
    /\ file_i = 1
    /\ pdf_pc = IF BatchProcessor_init_raises(provider) THEN "rejected" ELSE "loop"
    /\ parse_result = NoParse
    /\ temp_files = {}
    /\ pdf_error = "none"
    /\ job_results = <<>>
    /\ scratch_docx = "none"

\* process_pdf is entered for pdf_paths[file_i]: os.path.exists(pdf_path)
ProcessPdfValidate ==
    /\ pdf_pc = "loop"
    /\ file_i <= Len(pdf_paths)
    /\ temp_files' = {}
    /\ parse_result' = NoParse
    /\ IF pdf_paths[file_i] = "missing"
       THEN /\ pdf_error' = "FileNotFoundError"
            /\ pdf_pc' = "except"
       ELSE /\ pdf_error' = "none"
            /\ pdf_pc' = "parse"
    /\ UNCHANGED <<pdf_paths, keep_temp_files, file_i, job_results, scratch_docx>>
    /\ UNCHANGED <<chunkVars, formatVars, loadVars, backendVars, streamVars>>

\* step 1: parse_result = self.pdf_parser.parse_pdf(pdf_path); the converter
\* writes <temp_dir>/temp.docx, and may have written it before failing
ProcessPdfParse ==
    /\ pdf_pc = "parse"
    /\ \E units \in 1..MaxUnitsPerFile, written \in BOOLEAN :
         LET pr == parse_pdf(pdf_paths[file_i], units)
         IN  /\ parse_result' = pr
             /\ scratch_docx' = IF pr.success \/ written THEN "job" ELSE scratch_docx
             /\ IF ~pr.success
                THEN /\ pdf_error' = "RuntimeError"
                     /\ pdf_pc' = "except"
                ELSE /\ pdf_error' = "none"
                     /\ pdf_pc' = "extract"
    /\ UNCHANGED <<pdf_paths, keep_temp_files, file_i, temp_files, job_results>>
    /\ UNCHANGED <<chunkVars, formatVars, loadVars, backendVars, streamVars>>

\* temp_files.extend(parse_result.get('temp_files', []));
\* extracted_texts = parse_result['texts']: parse_pdf returns no such key
ProcessPdfExtract ==
    /\ pdf_pc = "extract"
    /\ temp_files' = temp_files \cup get_temp_files(parse_result)
    /\ IF "texts" \in DOMAIN parse_result
       THEN /\ pdf_error' = "none"
            /\ pdf_pc' = "translate"
       ELSE /\ pdf_error' = "KeyError"
            /\ pdf_pc' = "except"
    /\ UNCHANGED <<pdf_paths, keep_temp_files, file_i, parse_result, job_results,
                   scratch_docx>>
    /\ UNCHANGED <<chunkVars, formatVars, loadVars, backendVars, streamVars>>

\* except Exception: the failed ProcessingResult; finally: clean-up; back in
\* process_multiple_pdfs: results.append(result), sleep, next input
ProcessPdfExcept ==
    /\ pdf_pc = "except"
    /\ job_results' = append_result(job_results,
                          ProcessingResult(FALSE, file_i, <<>>, 0, 0, pdf_error))
    /\ scratch_docx' = IF ~keep_temp_files
                       THEN _cleanup_temp_files(temp_files, scratch_docx)
                       ELSE scratch_docx
    /\ file_i' = file_i + 1
    /\ pdf_pc' = "loop"
    /\ UNCHANGED <<pdf_paths, keep_temp_files, parse_result, temp_files, pdf_error>>
    /\ UNCHANGED <<chunkVars, formatVars, loadVars, backendVars, streamVars>>

\* after the loop: _generate_batch_report(results); return results
BatchReport ==
    /\ pdf_pc = "loop"
    /\ file_i > Len(pdf_paths)
    /\ pdf_pc' = "done"
    /\ UNCHANGED <<pdf_paths, keep_temp_files, file_i, parse_result, temp_files,
                   pdf_error, job_results, scratch_docx>>
    /\ UNCHANGED <<chunkVars, formatVars, loadVars, backendVars, streamVars>>

JobNext ==
    \/ ProcessPdfValidate
    \/ ProcessPdfParse
    \/ ProcessPdfExtract
    \/ ProcessPdfExcept
    \/ BatchReport

SpecJob == JobInit /\ [][JobNext]_vars


\* C1: process_multiple_pdfs returns one result per input, result i belonging
\* to input i; input i+1 is started only after input i has produced its
\* result, and a failed input never keeps the later inputs from being
\* processed: at every moment the results are those of inputs 1..file_i-1,
\* and at the return there are Len(pdf_paths) of them.
C1_OneResultPerInput ==
    /\ Len(job_results) = file_i - 1
    /\ \A k \in 1..Len(job_results) : job_results[k].input_file = k
    /\ pdf_pc = "done" => Len(job_results) = Len(pdf_paths)

\* a batch whose first input is corrupt and whose second is good has returned
C1_Witness ==
    /\ pdf_pc = "done"
    /\ Len(pdf_paths) >= 2
    /\ pdf_paths[1] = "corrupt"
    /\ pdf_paths[2] = "good"
    /\ ~job_results[1].success

\* C2: process_multiple_pdfs isolates failures: when exactly one input is
\* corrupt and all the others are good, the returned results have success =
\* true for every input but the corrupt one.
C2_IsolatesFailures ==
    ( /\ pdf_pc = "done"
      /\ \A k \in 1..Len(pdf_paths) : pdf_paths[k] \in {"good", "corrupt"}
      /\ Cardinality({k \in 1..Len(pdf_paths) : pdf_paths[k] = "corrupt"}) = 1 )
    => \A k \in 1..Len(pdf_paths) : job_results[k].success = (pdf_paths[k] = "good")


(***************************************************************************)
(* Streamed jobs (translation_api.py).                                     *)
(*                                                                         *)
(* translate_pdf_stream registers a progress entry and starts the worker   *)
(* translate_in_background.  The worker builds its configuration with      *)
(* ProcessingConfig from the mapping config_params, which carries the keys *)
(* use_smart_chunking, max_chunk_chars and min_chunk_chars, which the      *)
(* dataclass ProcessingConfig does not declare, so the construction raises *)
(* TypeError and the worker goes to its outer except handler.              *)
(*                                                                         *)
(* BatchProcessorWithProgress.process_pdf is therefore also modelled as an *)
(* operation of its own ("direct" mode): called on a processor whose       *)
(* configuration is either a plain ProcessingConfig or an object that also *)
(* carries the chunking attributes, for a task id that the caller may have *)
(* registered in the progress map.                                         *)
(***************************************************************************)
ProcessingConfigFields ==
    {"translation_provider", "source_language", "target_language", "translation_model",
     "api_key", "output_format", "layout", "replace_original", "batch_size",
     "delay_between_requests", "max_retries", "keep_temp_files", "output_directory"}

\* the keys of config_params when translate_in_background runs
StreamConfigParams ==
    {"translation_provider", "source_language", "target_language", "translation_model",
     "api_key", "output_format", "layout", "replace_original", "batch_size",
     "delay_between_requests", "use_smart_chunking", "max_chunk_chars",
     "min_chunk_chars", "output_directory", "keep_temp_files"}

\* the dataclass constructor accepts declared fields only
ProcessingConfig_accepts(keys) == keys \subseteq ProcessingConfigFields

ChunkingAttributes == {"use_smart_chunking", "max_chunk_chars", "min_chunk_chars"}

\* attributes of the configuration object of a processor
config_attributes(config) ==
    IF config = "dataclass" THEN ProcessingConfigFields
    ELSE ProcessingConfigFields \cup ChunkingAttributes

StreamBatchSizes == {-1, 0, 2}
TerminalStatus == {"completed", "failed", "error"}
NoResult == [success |-> FALSE, input_file |-> "none"]

\* progress_storage[task_id] = {...} of translate_pdf_stream
InitialEntry ==
    [status |-> "starting", progress |-> 0, current_step |-> "prepare",
     total_texts |-> 0, completed_texts |-> 0, error |-> "none", result |-> NoResult]

\* an _update_progress that also reports the stage in the status field
_update_progress_with_status(entry, progress, step, completed, total) ==
    IF entry = NoEntry THEN entry
    ELSE [entry EXCEPT !.status = step, !.progress = progress, !.current_step = step,
                       !.completed_texts = completed, !.total_texts = total]

\* BatchProcessorWithProgress._update_progress
_update_progress(entry, progress, step, completed, total) ==
    IF entry = NoEntry THEN entry
    ELSE [entry EXCEPT !.progress = progress, !.current_step = step,
                       !.completed_texts = completed, !.total_texts = total]

\* progress_storage[task_id].update({'status': 'error', ...})
mark_error(entry, err) ==
    [entry EXCEPT !.status = "error", !.current_step = "error", !.error = err]

\* the state of the code working on a task; doc is the kind of the source
\* file once the code has looked at it.  An input of process_pdf (the
\* file, the attributes of the configuration) is drawn where the code first
\* reads it; retention is "unread" until config.keep_temp_files is read
Worker(mode, pc) ==
    [mode |-> mode, pc |-> pc, doc |-> "unread", total |-> 0, translated |-> 0,
     error |-> "none",
     stage_failed |-> "none", temp_files |-> {}, output_files |-> <<>>,
     retention |-> "unread", result |-> NoResult]

StreamInit ==
    /\ FormatUnused
    /\ LoadUnused
    /\ ChunkerUnused
    /\ BackendUnused
    /\ JobUnused
    /\ StreamUnused

\* POST /translate/stream: the entry is created, the upload saved, the thread started
StartStream(t) ==
    /\ worker[t].pc = "idle"
    /\ worker' = [worker EXCEPT ![t] = Worker("http", "config")]
    /\ progress_storage' = [progress_storage EXCEPT ![t] = InitialEntry]
    /\ UNCHANGED <<reader, chunkVars, formatVars, loadVars, backendVars, jobVars>>

\* translate_in_background: config = ProcessingConfig from the mapping config_params
WorkerConfig(t) ==
    /\ worker[t].pc = "config"
    /\ worker' = [worker EXCEPT ![t] =
                    IF ProcessingConfig_accepts(StreamConfigParams)
                    THEN [@ EXCEPT !.pc = "p_start"]
                    ELSE [@ EXCEPT !.pc = "error", !.error = "TypeError"]]
    /\ UNCHANGED <<progress_storage, reader, chunkVars, formatVars, loadVars, backendVars, jobVars>>

\* translate_in_background: except Exception as e: status 'error'
WorkerError(t) ==
    /\ worker[t].pc = "error"
    /\ progress_storage' = [progress_storage EXCEPT ![t] = mark_error(@, worker[t].error)]
    /\ worker' = [worker EXCEPT ![t].pc = "finally"]
    /\ UNCHANGED <<reader, chunkVars, formatVars, loadVars, backendVars, jobVars>>

\* translate_in_background: finally: shutil.rmtree(temp_dir)
WorkerFinally(t) ==
    /\ worker[t].pc = "finally"
    /\ worker' = [worker EXCEPT ![t].pc = "done"]
    /\ UNCHANGED <<progress_storage, reader, chunkVars, formatVars, loadVars, backendVars, jobVars>>

\* BatchProcessorWithProgress(config, task_id).process_pdf(pdf_path) called
\* directly; registered: the caller put an initial entry into the progress map
DirectStart(t) ==
    /\ worker[t].pc = "idle"
    /\ \E registered \in BOOLEAN :
         progress_storage' = [progress_storage EXCEPT ![t] =
                                IF registered THEN InitialEntry ELSE NoEntry]
    /\ worker' = [worker EXCEPT ![t] = Worker("direct", "p_start")]
    /\ UNCHANGED <<reader, chunkVars, formatVars, loadVars, backendVars, jobVars>>

Progress(t, progress, step, completed, total) ==
    progress_storage' = [progress_storage EXCEPT ![t] =
                           _update_progress(@, progress, step, completed, total)]

\* process_pdf: self._update_progress(5, ...)
P_Start(t) ==
    /\ worker[t].pc = "p_start"
    /\ Progress(t, 5, "start", 0, 0)
    /\ worker' = [worker EXCEPT ![t].pc = "p_validate"]
    /\ UNCHANGED <<reader, chunkVars, formatVars, loadVars, backendVars, jobVars>>

\* os.path.exists, os.makedirs, self._update_progress(10, ...)
P_Validate(t) ==
    /\ worker[t].pc = "p_validate"
    /\ \E exists \in BOOLEAN :
         IF ~exists
         THEN /\ worker' = [worker EXCEPT ![t].pc = "p_except",
                                          ![t].doc = "missing",
                                          ![t].error = "FileNotFoundError",
                                          ![t].stage_failed = "validate"]
              /\ UNCHANGED progress_storage
         ELSE /\ worker' = [worker EXCEPT ![t].pc = "p_parse"]
              /\ Progress(t, 10, "parse", 0, 0)
    /\ UNCHANGED <<reader, chunkVars, formatVars, loadVars, backendVars, jobVars>>

\* parse_pdf, temp_files.append(temp_docx_path), self._update_progress(20, ...)
P_Parse(t) ==
    /\ worker[t].pc = "p_parse"
    /\ \E kind \in FileKinds \ {"missing"}, units \in 1..MaxUnitsPerFile,
          written \in BOOLEAN :
         LET pr == parse_pdf(kind, units)
         IN  /\ scratch_docx' = IF pr.success \/ written THEN t ELSE scratch_docx
             /\ IF ~pr.success
                THEN /\ worker' = [worker EXCEPT ![t].pc = "p_except",
                                                 ![t].doc = kind,
                                                 ![t].error = "RuntimeError",
                                                 ![t].stage_failed = "parse"]
                     /\ UNCHANGED progress_storage
                ELSE /\ worker' = [worker EXCEPT
                                     ![t].pc = "p_extract",
                                     ![t].doc = kind,
                                     ![t].total = pr.document_data.total_paragraphs,
                                     ![t].temp_files =
                                         IF "temp_docx_path" \in DOMAIN pr
                                         THEN @ \cup {pr.temp_docx_path} ELSE @]
                     /\ Progress(t, 20, "extract", 0, 0)
    /\ UNCHANGED <<pdf_paths, keep_temp_files, file_i, pdf_pc, parse_result, temp_files,
                   pdf_error, job_results>>
    /\ UNCHANGED <<reader, chunkVars, formatVars, loadVars, backendVars>>

\* get_text_for_translation(document_data, self.config.use_smart_chunking, ...):
\* the attributes are read first; an empty text list raises;
\* self._update_progress(30, ..., 0, total_texts)
P_Extract(t) ==
    /\ worker[t].pc = "p_extract"
    /\ \E config \in {"dataclass", "extended"} :
         IF ~(ChunkingAttributes \subseteq config_attributes(config))
         THEN /\ worker' = [worker EXCEPT ![t].pc = "p_except",
                                          ![t].error = "AttributeError",
                                          ![t].stage_failed = "extract"]
              /\ UNCHANGED progress_storage
         ELSE IF worker[t].total = 0
         THEN /\ worker' = [worker EXCEPT ![t].pc = "p_except",
                                          ![t].error = "RuntimeError",
                                          ![t].stage_failed = "extract"]
              /\ UNCHANGED progress_storage
         ELSE /\ worker' = [worker EXCEPT ![t].pc = "p_translate"]
              /\ Progress(t, 30, "translate", 0, worker[t].total)
    /\ UNCHANGED <<reader, chunkVars, formatVars, loadVars, backendVars, jobVars>>

\* a percentage that starts again from zero inside the translation stage
translate_percent_restart(i, total) == (i * 60) \div total

\* 30 + int((i / total_texts) * 60)
translate_percent(i, total) == 30 + ((i * 60) \div total)

\* _translate_texts_with_progress: for i in range(0, total_texts, batch_size);
\* the first pass reports its progress and calls
\* self.translation_engine.translator.translate_batch(batch); the engine of a
\* processor has created no translator, so the attribute access raises and the
\* method returns success = False.  A batch size of 0 makes range() raise, a
\* negative one leaves the loop without a pass and returns success = True
\* with no translated text.
P_Translate(t) ==
    /\ worker[t].pc = "p_translate"
    /\ \E bs \in StreamBatchSizes :
         IF bs = 0
         THEN /\ worker' = [worker EXCEPT ![t].pc = "p_except",
                                          ![t].error = "RuntimeError",
                                          ![t].stage_failed = "translate"]
              /\ UNCHANGED progress_storage
         ELSE IF bs < 0
         THEN /\ worker' = [worker EXCEPT ![t].pc = "p_output", ![t].translated = 0]
              /\ UNCHANGED progress_storage
         ELSE /\ Progress(t, translate_percent(0, worker[t].total), "translate", 0,
                          worker[t].total)
              /\ worker' = [worker EXCEPT ![t].pc = "p_except",
                                          ![t].error = "RuntimeError",
                                          ![t].stage_failed = "translate"]
    /\ UNCHANGED <<reader, chunkVars, formatVars, loadVars, backendVars, jobVars>>

\* DocumentFormatter.create_bilingual_document: the length mismatch raises
\* inside the try, and so does a failing doc.save; every exception is caught
\* and answered with False
create_bilingual_document(n_original, n_translated, saved) ==
    n_original = n_translated /\ saved

\* self._update_progress(90, ...); _generate_output_documents: the document
\* is listed only if the formatter reports success
P_Output(t) ==
    /\ worker[t].pc = "p_output"
    /\ Progress(t, 90, "output", 0, 0)
    /\ \E saved \in BOOLEAN :
         LET created == create_bilingual_document(worker[t].total, worker[t].translated,
                                                  saved)
         IN  worker' = [worker EXCEPT
                          ![t].pc = "p_report",
                          ![t].output_files = IF created THEN <<"docx">> ELSE <<>>,
                          ![t].stage_failed = IF created THEN @ ELSE "output"]
    /\ UNCHANGED <<reader, chunkVars, formatVars, loadVars, backendVars, jobVars>>

\* self._update_progress(95, ...); _generate_processing_report
P_Report(t) ==
    /\ worker[t].pc = "p_report"
    /\ Progress(t, 95, "report", 0, 0)
    /\ worker' = [worker EXCEPT ![t].pc = "p_result"]
    /\ UNCHANGED <<reader, chunkVars, formatVars, loadVars, backendVars, jobVars>>

\* values config.keep_temp_files can have: translate_pdf_stream sets it True
KeepChoices(mode) == IF mode = "http" THEN {TRUE} ELSE BOOLEAN

\* the successful ProcessingResult, self._update_progress(100, ...), finally
P_Result(t) ==
    /\ worker[t].pc = "p_result"
    /\ Progress(t, 100, "done", 0, 0)
    /\ \E keep \in KeepChoices(worker[t].mode) :
         /\ worker' = [worker EXCEPT
                         ![t].pc = "returned",
                         ![t].retention = IF keep THEN "keep" ELSE "remove",
                         ![t].result = ProcessingResult(TRUE, t, worker[t].output_files,
                                                        worker[t].total,
                                                        worker[t].translated, "none")]
         /\ scratch_docx' = IF ~keep
                            THEN _cleanup_temp_files(worker[t].temp_files, scratch_docx)
                            ELSE scratch_docx
    /\ UNCHANGED <<pdf_paths, keep_temp_files, file_i, pdf_pc, parse_result, temp_files,
                   pdf_error, job_results>>
    /\ UNCHANGED <<reader, chunkVars, formatVars, loadVars, backendVars>>

\* except Exception: the failed ProcessingResult, finally
P_Except(t) ==
    /\ worker[t].pc = "p_except"
    /\ \E keep \in KeepChoices(worker[t].mode) :
         /\ worker' = [worker EXCEPT
                         ![t].pc = "returned",
                         ![t].retention = IF keep THEN "keep" ELSE "remove",
                         ![t].result = ProcessingResult(FALSE, t, worker[t].output_files,
                                                        0, 0, worker[t].error)]
         /\ scratch_docx' = IF ~keep
                            THEN _cleanup_temp_files(worker[t].temp_files, scratch_docx)
                            ELSE scratch_docx
    /\ UNCHANGED <<pdf_paths, keep_temp_files, file_i, pdf_pc, parse_result, temp_files,
                   pdf_error, job_results, progress_storage>>
    /\ UNCHANGED <<reader, chunkVars, formatVars, loadVars, backendVars>>

(***************************************************************************)
(* Clients of the progress routes.  A client reads one task's entry, by    *)
(* polling GET /progress/<task_id> or over the event stream of             *)
(* GET /progress/stream/<task_id>; reader.last is what its last read       *)
(* returned.                                                               *)
(***************************************************************************)
\* what a response carries of an entry; a missing entry is answered with
\* 'task does not exist'
observe(entry) ==
    IF entry = NoEntry THEN [status |-> "absent", progress |-> 0]
    ELSE [status |-> entry.status, progress |-> entry.progress]

\* get_translation_progress(task_id)
GetProgress(t) ==
    /\ reader.pc \in {"idle", "polling"}
    /\ reader.pc = "polling" => reader.task = t
    /\ reader' = [pc |-> "polling", task |-> t, last |-> observe(progress_storage[t])]
    /\ UNCHANGED <<progress_storage, worker, chunkVars, formatVars, loadVars, backendVars, jobVars>>

\* stream_translation_progress(task_id): the generator is started
OpenProgressStream(t) ==
    /\ reader.pc = "idle"
    /\ reader' = [pc |-> "streaming", task |-> t, last |-> NoObservation]
    /\ UNCHANGED <<progress_storage, worker, chunkVars, formatVars, loadVars, backendVars, jobVars>>

\* a loop of generate() that does not stop on the status error
stream_ends_without_error(entry) ==
    entry = NoEntry \/ entry.status \in {"completed", "failed"}

\* whether generate() leaves its loop after yielding this entry
stream_ends(entry) == entry = NoEntry \/ entry.status \in TerminalStatus

\* one pass of the loop of generate(): yield the entry; break if the task
\* does not exist or its status is completed, failed or error; else sleep
StreamYield(t) ==
    /\ reader.pc = "streaming"
    /\ reader.task = t
    /\ LET entry == progress_storage[reader.task]
       IN  reader' = [reader EXCEPT !.last = observe(entry),
                                    !.pc = IF stream_ends(entry) THEN "ended"
                                           ELSE "streaming"]
    /\ UNCHANGED <<progress_storage, worker, chunkVars, formatVars, loadVars, backendVars, jobVars>>

StreamNext ==
    \E t \in Tasks :
        \/ StartStream(t)
        \/ WorkerConfig(t)
        \/ WorkerError(t)
        \/ WorkerFinally(t)
        \/ DirectStart(t)
        \/ P_Start(t)
        \/ P_Validate(t)
        \/ P_Parse(t)
        \/ P_Extract(t)
        \/ P_Translate(t)
        \/ P_Output(t)
        \/ P_Report(t)
        \/ P_Result(t)
        \/ P_Except(t)
        \/ GetProgress(t)
        \/ OpenProgressStream(t)
        \/ StreamYield(t)

SpecStream == StreamInit /\ [][StreamNext]_vars

\* task t was started by POST /translate/stream
streamed(t) == worker[t].pc # "idle" /\ worker[t].mode = "http"

\* the steps of the thread of a streamed job: the configuration is refused
\* (WorkerConfig), so the thread goes through its handler and its finally
\* clause and never enters process_pdf
WorkerStep(t) ==
    \/ WorkerConfig(t)
    \/ WorkerError(t)
    \/ WorkerFinally(t)

\* the streaming route and the two progress routes
StreamedNext ==
    \E t \in Tasks :
        \/ StartStream(t)
        \/ WorkerConfig(t)
        \/ WorkerError(t)
        \/ WorkerFinally(t)
        \/ GetProgress(t)
        \/ OpenProgressStream(t)
        \/ StreamYield(t)

\* a started thread keeps running (threading.Thread(...).start()), and the
\* generator of an open event stream keeps being resumed; nothing is assumed
\* about when requests arrive
SpecStreamedFair ==
    /\ StreamInit
    /\ [][StreamedNext]_vars
    /\ \A t \in Tasks : WF_vars(WorkerStep(t)) /\ WF_vars(StreamYield(t))


(***************************************************************************)
(* Properties of the status of a streamed job.                             *)
(***************************************************************************)
\* C10 as stated: the status of the progress entry takes the value of each
\* stage as the worker enters it (parsing, extracting-text, translating,
\* formatting).
C10_StatusFollowsStages ==
    \A t \in Tasks :
        LET stage == [p_parse |-> "parsing", p_extract |-> "extracting-text",
                      p_translate |-> "translating", p_output |-> "formatting"]
        IN  (progress_storage[t] # NoEntry /\ worker[t].pc \in DOMAIN stage) =>
                progress_storage[t].status = stage[worker[t].pc]

\* C10 amended: the status of an entry is 'starting' from its creation, the
\* stages of the worker show in progress and current_step only, and status
\* changes at most once more, to completed, failed or error, which is never
\* left.
C10_StatusStartingThenTerminal ==
    /\ [](\A t \in Tasks :
            (progress_storage[t] # NoEntry /\ worker[t].pc \notin {"finally", "done"}) =>
                progress_storage[t].status = "starting")
    /\ [][\A t \in Tasks :
            LET old == progress_storage[t].status
                new == progress_storage'[t].status
            IN  old # new =>
                    \/ old = "absent" /\ new = "starting"
                    \/ old = "starting" /\ new \in TerminalStatus]_vars

\* C10: one job has ended with status error while the worker of another is
\* in its translating stage, with the progress of that stage and status
\* starting
C10_Witness ==
    /\ progress_storage["t1"] # NoEntry
    /\ progress_storage["t1"].status = "error"
    /\ worker["t1"].pc = "done"
    /\ progress_storage["t2"] # NoEntry
    /\ worker["t2"].pc = "p_translate"
    /\ progress_storage["t2"].progress = 30
    /\ progress_storage["t2"].status = "starting"

(***************************************************************************)
(* Properties of the progress entries as their readers see them.           *)
(***************************************************************************)
\* a status never moves backwards: starting comes before the terminal ones
StatusRank(status) == IF status \in TerminalStatus THEN 1 ELSE 0

\* C11: once the entry of a task exists, it changes only in a step of that
\* task's own worker, and such a step changes no other task's entry; and
\* whenever a client reads a task's entry again, the percentage it gets is
\* not below the one it got before, the status has not moved backwards, and
\* after a terminal status the client is given the same answer again.
C11_SoleWriterMonotoneReads ==
    [][ /\ \A t \in Tasks :
             (progress_storage[t] # NoEntry /\ progress_storage'[t] # progress_storage[t])
                => /\ worker'[t] # worker[t]
                   /\ \A u \in Tasks \ {t} : /\ progress_storage'[u] = progress_storage[u]
                                              /\ worker'[u] = worker[u]
        /\ (/\ reader.last.status \notin {"none", "absent"}
            /\ reader'.task = reader.task
            /\ reader'.last # reader.last)
                => /\ reader'.last.status # "absent"
                   /\ reader'.last.progress >= reader.last.progress
                   /\ StatusRank(reader'.last.status) >= StatusRank(reader.last.status)
                   /\ reader.last.status \notin TerminalStatus
      ]_vars

\* C11 witness: a client has read a percentage of a running job, and the
\* job's worker has since moved the entry on to a larger percentage
C11_Witness ==
    /\ reader.pc \in {"polling", "streaming"}
    /\ reader.last.status = "starting"
    /\ reader.last.progress >= 5
    /\ progress_storage[reader.task].progress > reader.last.progress

StreamedWorkerOutsidePipeline ==
    \A t \in Tasks :
        streamed(t) => worker[t].pc \in {"config", "error", "finally", "done"}

(***************************************************************************)
(* Properties of the ProcessingResult of one run of process_pdf.           *)
(***************************************************************************)
\* C13 as stated: whichever stage of process_pdf failed (the file is
\* missing, the parse fails, nothing is extracted, the translation is not
\* available, no output document is produced), process_pdf returns a result
\* with success = False, an empty list of output files and the cause in
\* error.
C13_AnyStageFailureFailsResult ==
    \A t \in Tasks :
        (worker[t].pc = "returned" /\ worker[t].stage_failed # "none")
            => /\ worker[t].result.success = FALSE
               /\ worker[t].result.output_files = <<>>
               /\ worker[t].result.error # "none"

\* C14 as stated: a result with success = True lists at least one output
\* document.
C14_SuccessListsOutput ==
    \A t \in Tasks :
        (worker[t].pc = "returned" /\ worker[t].result.success)
            => Len(worker[t].result.output_files) >= 1

(***************************************************************************)
(* Properties of the scratch document <temp_dir>/temp.docx.                *)
(***************************************************************************)
\* C15 as stated: unless keep_temp_files is set, whenever process_pdf has
\* returned (process_multiple_pdfs is between two inputs or has finished)
\* the scratch document is no longer on disk.
C15_ScratchRemovedAtReturn ==
    (pdf_pc \in {"loop", "done"} /\ ~keep_temp_files) => scratch_docx = "none"

\* C16 as stated: jobs running at the same time share nothing mutable but
\* the progress map; for the scratch document: while a job that wrote it is
\* still inside process_pdf, no step of another job overwrites or removes it.
C16_ScratchNotShared ==
    [][\A t \in Tasks :
          (scratch_docx = t /\ worker[t].pc # "returned")
              => (scratch_docx' = t \/ worker'[t] # worker[t])]_vars

\* C17 as stated: in the result of every successful job the number of
\* translated texts equals the number of original texts.
C17_TranslatedCountMatches ==
    \A t \in Tasks :
        (worker[t].pc = "returned" /\ worker[t].result.success)
            => worker[t].result.translated_text_count
                   = worker[t].result.original_text_count

(***************************************************************************)
(* Properties of the pacing of translate_batch.                            *)
(***************************************************************************)
\* what a backend sleeps between two calls inside one batch
pause_inside_batch(cls, delay) == sleep_after_text(cls, delay, 0, 2)

\* C18 as stated: between two consecutive translate_text calls of
\* translate_batch the backend sleeps at least the configured delay, and
\* for every backend the pause between the last call of a batch and the
\* first call of the next batch is larger than the pause inside a batch.
C18_PausesBetweenCalls ==
    /\ pause.kind \in {"in_batch", "between_batches"}
          => pause.slept >= delay_between_requests
    /\ pause.kind = "between_batches"
          => pause.slept > pause_inside_batch(engine_translator, delay_between_requests)

(***************************************************************************)
(* Properties of the terminal entry of a streamed job.                     *)
(***************************************************************************)
\* C19 as stated: the terminal entry of a streamed job that failed has the
\* status failed or error and, in error, the error text of the failed
\* ProcessingResult that process_pdf returned for the job; a terminal entry
\* with the status completed has no error and carries the result.
C19_TerminalCarriesResultError ==
    \A t \in Tasks :
        (streamed(t) /\ progress_storage[t].status \in TerminalStatus)
            => /\ progress_storage[t].status \in {"failed", "error"}
                     => /\ worker[t].result # NoResult
                        /\ ~worker[t].result.success
                        /\ progress_storage[t].error = worker[t].result.error
               /\ progress_storage[t].status = "completed"
                     => /\ progress_storage[t].error = "none"
                        /\ progress_storage[t].result # NoResult

(***************************************************************************)
(* Properties of a job with a malformed configuration.                     *)
(***************************************************************************)
\* C20 as stated: a job whose configuration names a provider the backend
\* factory does not support is rejected before the pipeline starts: no
\* parse step is executed for it and no scratch document is written.
C20_MalformedConfigRejected ==
    provider \notin SupportedProviders
        => /\ parse_result = NoParse
           /\ scratch_docx = "none"
           /\ pdf_pc \notin {"extract"}

(***************************************************************************)
(* DocumentFormatter.create_bilingual_document (formatter.py).  A text is  *)
(* a sequence of characters; a document is its table rows (side by side)   *)
(* or its paragraph blocks (paragraph by paragraph) in order.              *)
(***************************************************************************)
MaxPairs == 3            \* texts in a list handed to the formatter

\* texts tried: empty, whitespace only, and one with content
FormatTexts == {<<>>, <<Space>>, <<"a">>}
FormatLists == UNION {[1..n -> FormatTexts] : n \in 0..MaxPairs}
Layouts == {"side_by_side", "paragraph_by_paragraph"}

HeaderRow == [original |-> <<"HEADER_ORIGINAL">>, translated |-> <<"HEADER_TRANSLATED">>]
EmptyDocument == [table |-> <<>>, body |-> <<>>]

\* a row is skipped only if both sides are blank
keeps_row_if_both(original, translated) ==
    strip(original) # <<>> /\ strip(translated) # <<>>

\* if original.strip() or translated.strip()
keeps_row(original, translated) ==
    strip(original) # <<>> \/ strip(translated) # <<>>

FormatInit ==
    /\ LoadUnused
    /\ ChunkerUnused
    /\ BackendUnused
    /\ JobUnused
    /\ StreamUnused
    /\ original_texts \in FormatLists
    /\ translated_texts \in FormatLists
    /\ layout \in Layouts
    /\ fmt_pc = "call"
    /\ zip_i = 0
    /\ doc = <<>>
    /\ saved_doc = NoDoc
    /\ fmt_ret = "none"

\* the length check, Document(), the heading, and for the side-by-side
\* layout doc.add_table(rows=1, cols=2) with its header cells
FormatOpen ==
    /\ fmt_pc = "call"
    /\ IF Len(original_texts) # Len(translated_texts)
       THEN /\ fmt_ret' = FALSE
            /\ fmt_pc' = "done"
            /\ UNCHANGED doc
       ELSE /\ doc' = IF layout = "side_by_side"
                      THEN [EmptyDocument EXCEPT !.table = <<HeaderRow>>]
                      ELSE EmptyDocument
            /\ fmt_pc' = "pairs"
            /\ UNCHANGED fmt_ret
    /\ UNCHANGED <<original_texts, translated_texts, layout, zip_i, saved_doc>>
    /\ UNCHANGED <<chunkVars, backendVars, jobVars, streamVars, loadVars>>

\* _create_side_by_side_layout: one pass of the loop over the zipped lists
FormatAddRow ==
    /\ fmt_pc = "pairs"
    /\ layout = "side_by_side"
    /\ zip_i < Min(Len(original_texts), Len(translated_texts))
    /\ LET original == original_texts[zip_i + 1]
           translated == translated_texts[zip_i + 1]
       IN  doc' = IF keeps_row(original, translated)
                  THEN [doc EXCEPT !.table =
                           Append(@, [original |-> original, translated |-> translated])]
                  ELSE doc
    /\ zip_i' = zip_i + 1
    /\ UNCHANGED <<original_texts, translated_texts, layout, fmt_pc, saved_doc, fmt_ret>>
    /\ UNCHANGED <<chunkVars, backendVars, jobVars, streamVars, loadVars>>

\* _create_paragraph_layout: one pass of the loop: the numbered heading, the
\* two paragraphs and the separator line
FormatAddParagraphs ==
    /\ fmt_pc = "pairs"
    /\ layout # "side_by_side"
    /\ zip_i < Min(Len(original_texts), Len(translated_texts))
    /\ LET original == original_texts[zip_i + 1]
           translated == translated_texts[zip_i + 1]
       IN  doc' = IF keeps_row(original, translated)
                  THEN [doc EXCEPT !.body =
                           Append(@, [number |-> zip_i + 1, original |-> original,
                                      translated |-> translated])]
                  ELSE doc
    /\ zip_i' = zip_i + 1
    /\ UNCHANGED <<original_texts, translated_texts, layout, fmt_pc, saved_doc, fmt_ret>>
    /\ UNCHANGED <<chunkVars, backendVars, jobVars, streamVars, loadVars>>

\* doc.save(output_path); return True, or False if the save raised
FormatSave ==
    /\ fmt_pc = "pairs"
    /\ zip_i >= Min(Len(original_texts), Len(translated_texts))
    /\ \E save_ok \in BOOLEAN :
         /\ saved_doc' = IF save_ok THEN doc ELSE saved_doc
         /\ fmt_ret' = save_ok
    /\ fmt_pc' = "done"
    /\ UNCHANGED <<original_texts, translated_texts, layout, zip_i, doc>>
    /\ UNCHANGED <<chunkVars, backendVars, jobVars, streamVars, loadVars>>

FormatNext ==
    \/ FormatOpen
    \/ FormatAddRow
    \/ FormatAddParagraphs
    \/ FormatSave

SpecFormat == FormatInit /\ [][FormatNext]_vars

\* the indices of the pairs with a non-blank side, in increasing order
RECURSIVE NonBlankPairs(_)
NonBlankPairs(n) ==
    IF n = 0 THEN <<>>
    ELSE LET before == NonBlankPairs(n - 1)
         IN  IF strip(original_texts[n]) = <<>> /\ strip(translated_texts[n]) = <<>>
             THEN before ELSE Append(before, n)

\* C21: a document written in the side-by-side layout comes from lists of
\* equal length and holds one header row followed by one row per pair with
\* a non-blank side, each row holding its pair, in input order; for lists
\* of different lengths the call returns False and writes no document.
C21_SideBySideRows ==
    fmt_pc = "done" =>
        /\ Len(original_texts) # Len(translated_texts)
              => fmt_ret = FALSE /\ saved_doc = NoDoc
        /\ (saved_doc # NoDoc /\ layout = "side_by_side")
              => LET kept == NonBlankPairs(Len(original_texts))
                     rows == saved_doc.table
                 IN  /\ fmt_ret = TRUE
                     /\ Len(original_texts) = Len(translated_texts)
                     /\ Len(rows) = 1 + Len(kept)
                     /\ rows[1] = HeaderRow
                     /\ \A k \in 1..Len(kept) :
                           rows[k + 1] = [original |-> original_texts[kept[k]],
                                          translated |-> translated_texts[kept[k]]]

\* C21 witness: three pairs, exactly one of them blank on both sides, written
\* side by side as a header row and two content rows
C21_Witness ==
    /\ fmt_pc = "done"
    /\ layout = "side_by_side"
    /\ Len(original_texts) = 3
    /\ Len(translated_texts) = 3
    /\ Len(NonBlankPairs(3)) = 2
    /\ saved_doc # NoDoc
    /\ Len(saved_doc.table) = 3

(***************************************************************************)
(* The chunker under min_chars >= max_chars.                               *)
(***************************************************************************)
\* C22 as stated: when min_chars >= max_chars every non-empty unit of at
\* most max_chars characters takes the mid-sized branch: nothing is ever
\* held in the pending buffer, no chunk comes out of the buffer, and each
\* such unit is a chunk of its own.
C22_DegenerateAllMid ==
    min_chars >= max_chars
        => /\ current_chunk = <<>>
           /\ \A k \in 1..Len(emitted_from) : emitted_from[k] # "buffer"
           /\ \A u \in 1..(unit_idx - 1) :
                 (strip(texts[u]) # <<>> /\ Len(strip(texts[u])) <= max_chars)
                     => \E k \in 1..Len(chunked_texts) : chunked_texts[k] = strip(texts[u])

(***************************************************************************)
(* One NLLBTranslator instance, its loading stages taken one pipeline()    *)
(* call at a time.  Whether a pipeline() call succeeds is up to the        *)
(* environment at the moment of the call.                                  *)
(***************************************************************************)
MaxLoadFallbacks == 2    \* models in the fallback_models list

\* the settings of nllb_config that _initialize_model reads
LoadConfigs ==
    [prefer_local_files : BOOLEAN, fallback_to_online : BOOLEAN,
     fallback_models : 0..MaxLoadFallbacks]

Attempt(stage, index, ok) == [stage |-> stage, index |-> index, ok |-> ok]

\* where _initialize_model starts: offline_config.get('prefer_local_files')
first_stage(cfg) == IF cfg.prefer_local_files THEN "cache" ELSE "online"

\* except after the local-cache attempt: _try_online_loading or raise
after_cache_failure(cfg) == IF cfg.fallback_to_online THEN "online" ELSE "failed"

\* except e3 in _try_online_loading: _try_fallback_models or raise
after_standard_failure(cfg) == IF cfg.fallback_models > 0 THEN "fallback" ELSE "failed"

\* an online failure that goes on to the fallback models at once
after_online_failure_to_fallback(cfg) == after_standard_failure(cfg)

\* except e2 in _try_online_loading: the standard pipeline() call
after_online_failure(cfg) == "standard"

LoadInit ==
    /\ ChunkerUnused
    /\ FormatUnused
    /\ JobUnused
    /\ StreamUnused
    /\ provider = "nllb"
    /\ api_key = "none"
    /\ batch_size = 10
    /\ delay_between_requests = Default_delay_between_requests
    /\ pipeline_installed \in BOOLEAN
    /\ openai_installed = TRUE
    /\ nllb_config \in LoadConfigs
    /\ engine_translator = "NLLBTranslator"
    /\ model_loaded = FALSE
    /\ translator = NoModel
    /\ client = "none"
    /\ b_op = "idle"
    /\ b_texts = <<>>
    /\ batch_i = 0
    /\ batch_j = 0
    /\ dynamic_batch_size = 0
    /\ batch_results = <<>>
    /\ results = <<>>
    /\ pause = NoPause
    /\ ret = NoRet
    /\ LoadUnused

LoadRet(op, outcome, value) == [op |-> op, outcome |-> outcome, value |-> value]

\* what the caller does once _initialize_model is behind it: is_available
\* returns self.translator is not None; translate_text of a non-blank text
\* echoes the text if there is no translator and calls the model otherwise
after_initialize(op, model, call) ==
    IF op = "is_available" THEN LoadRet(op, "returned", model # NoModel)
    ELSE IF model = NoModel THEN LoadRet(op, "returned", "echo")
    ELSE IF call = "raise" THEN LoadRet(op, "returned", "echo")
    ELSE LoadRet(op, "returned", "translation")

\* is_available() or translate_text(non-blank text) is called on the
\* instance: if not self.model_loaded: self._initialize_model(), which
\* raises ImportError when pipeline is None
LoadCall ==
    /\ load_pc = "idle"
    /\ \E op \in {"is_available", "translate_text"}, call \in {"ok", "raise"} :
         /\ load_caller' = op
         /\ IF model_loaded
            THEN /\ load_ret' = after_initialize(op, translator, call)
                 /\ UNCHANGED <<load_pc, attempts>>
            ELSE IF ~pipeline_installed
            THEN /\ load_ret' = IF op = "is_available"
                                THEN LoadRet(op, "returned", FALSE)
                                ELSE LoadRet(op, "raised", "ImportError")
                 /\ UNCHANGED <<load_pc, attempts>>
            ELSE /\ load_ret' = NoLoadRet
                 /\ attempts' = <<>>
                 /\ load_pc' = first_stage(nllb_config)
    /\ UNCHANGED <<fallback_k, exhausted>>
    /\ UNCHANGED <<chunkVars, formatVars, jobVars, streamVars, backendVars>>

\* pipeline('translation', model=model_name, local_files_only=True, ...)
LoadCache ==
    /\ load_pc = "cache"
    /\ \E ok \in BOOLEAN :
         /\ attempts' = Append(attempts, Attempt("cache", 0, ok))
         /\ translator' = IF ok THEN PrimaryModel ELSE translator
         /\ load_pc' = IF ok THEN "loaded" ELSE after_cache_failure(nllb_config)
    /\ UNCHANGED <<load_caller, fallback_k, exhausted, load_ret>>
    /\ UNCHANGED <<chunkVars, formatVars, jobVars, streamVars, configVars, batchVars, ret,
                   engine_translator, model_loaded, client>>

\* _try_online_loading: pipeline('translation', model=model_name, model_kwargs=...)
LoadOnline ==
    /\ load_pc = "online"
    /\ \E ok \in BOOLEAN :
         /\ attempts' = Append(attempts, Attempt("online", 0, ok))
         /\ translator' = IF ok THEN PrimaryModel ELSE translator
         /\ load_pc' = IF ok THEN "loaded" ELSE after_online_failure(nllb_config)
    /\ UNCHANGED <<load_caller, fallback_k, exhausted, load_ret>>
    /\ UNCHANGED <<chunkVars, formatVars, jobVars, streamVars, configVars, batchVars, ret,
                   engine_translator, model_loaded, client>>

\* _try_online_loading: pipeline('translation', model=model_name, device=device)
LoadStandard ==
    /\ load_pc = "standard"
    /\ \E ok \in BOOLEAN :
         /\ attempts' = Append(attempts, Attempt("standard", 0, ok))
         /\ translator' = IF ok THEN PrimaryModel ELSE translator
         /\ load_pc' = IF ok THEN "loaded" ELSE after_standard_failure(nllb_config)
         /\ fallback_k' = 1
    /\ UNCHANGED <<load_caller, exhausted, load_ret>>
    /\ UNCHANGED <<chunkVars, formatVars, jobVars, streamVars, configVars, batchVars, ret,
                   engine_translator, model_loaded, client>>

\* _try_fallback_models: one pass of the loop over fallback_models; after
\* the last model has failed the method raises
LoadFallback ==
    /\ load_pc = "fallback"
    /\ \E ok \in BOOLEAN :
         /\ attempts' = Append(attempts, Attempt("fallback", fallback_k, ok))
         /\ translator' = IF ok THEN FallbackModel(fallback_k) ELSE translator
         /\ load_pc' = IF ok THEN "loaded"
                       ELSE IF fallback_k < nllb_config.fallback_models THEN "fallback"
                       ELSE "failed"
         /\ fallback_k' = IF ok THEN fallback_k ELSE fallback_k + 1
    /\ UNCHANGED <<load_caller, exhausted, load_ret>>
    /\ UNCHANGED <<chunkVars, formatVars, jobVars, streamVars, configVars, batchVars, ret,
                   engine_translator, model_loaded, client>>

\* the end of _initialize_model, self.model_loaded = True or the outer
\* except (translator = None, model_loaded = False), and the rest of the caller
LoadFinish ==
    /\ load_pc \in {"loaded", "failed"}
    /\ \E call \in {"ok", "raise"} :
         LET model == IF load_pc = "loaded" THEN translator ELSE NoModel
         IN  /\ translator' = model
             /\ model_loaded' = (load_pc = "loaded")
             /\ load_ret' = after_initialize(load_caller, model, call)
    /\ exhausted' = (exhausted \/ load_pc = "failed")
    /\ load_pc' = "idle"
    /\ fallback_k' = 0
    /\ UNCHANGED <<load_caller, attempts>>
    /\ UNCHANGED <<chunkVars, formatVars, jobVars, streamVars, configVars, batchVars, ret,
                   engine_translator, client>>

LoadNext ==
    \/ LoadCall
    \/ LoadCache
    \/ LoadOnline
    \/ LoadStandard
    \/ LoadFallback
    \/ LoadFinish

SpecLoad == LoadInit /\ [][LoadNext]_vars

(***************************************************************************)
(* Properties of model loading.                                            *)
(***************************************************************************)
Stage(stage, index) == [stage |-> stage, index |-> index]

FallbackStages(n) == [k \in 1..n |-> Stage("fallback", k)]

\* local cache, network fetch, relaxed fetch, then the fallback models
FullOrder(cfg) ==
    <<Stage("cache", 0), Stage("online", 0), Stage("standard", 0)>>
        \o FallbackStages(cfg.fallback_models)

\* the stages the configuration lets _initialize_model reach
ConfiguredOrder(cfg) ==
    IF ~cfg.prefer_local_files
    THEN <<Stage("online", 0), Stage("standard", 0)>> \o FallbackStages(cfg.fallback_models)
    ELSE IF ~cfg.fallback_to_online THEN <<Stage("cache", 0)>>
    ELSE FullOrder(cfg)

\* the attempts made so far are the first stages of order, each attempted
\* after all before it failed; loading has given up only after the last
\* stage of order; and once the run has ended, the instance is marked
\* loaded exactly if its last attempt succeeded
AttemptsFollow(order) ==
    /\ Len(attempts) <= Len(order)
    /\ \A k \in 1..Len(attempts) :
          /\ Stage(attempts[k].stage, attempts[k].index) = order[k]
          /\ k < Len(attempts) => ~attempts[k].ok
    /\ load_pc = "failed" => Len(attempts) = Len(order)
    /\ load_pc = "loaded" => attempts[Len(attempts)].ok
    /\ (load_pc = "idle" /\ attempts # <<>>)
          => (model_loaded <=> attempts[Len(attempts)].ok)

\* C23 as stated: loading attempts the local cache, the network fetch, the
\* relaxed fetch and then each fallback model in list order, for every
\* configuration.
C23_StagesInFullOrder == AttemptsFollow(FullOrder(nllb_config))

\* C23, amended: loading attempts, in this order, the stages its
\* configuration allows: all of them with prefer_local_files and
\* fallback_to_online set; without prefer_local_files all but the local
\* cache; with prefer_local_files but without fallback_to_online the local
\* cache only.  A stage is attempted only after every earlier one failed,
\* loading stops at the first success, and the instance is marked loaded
\* exactly when a stage succeeded.
C23_StagesInConfiguredOrder == AttemptsFollow(ConfiguredOrder(nllb_config))

\* C23 witness: every stage of the primary model and the first fallback
\* model failed, the second fallback model loaded
C23_Witness ==
    /\ load_pc = "idle"
    /\ model_loaded
    /\ Len(attempts) = 5
    /\ translator = FallbackModel(2)

\* C24 as stated: once a run of _initialize_model has ended with every stage
\* failed, the instance stays unavailable: it is never marked loaded again,
\* every later is_available() returns False and every later translate_text
\* returns its input.
C24_ExhaustedStaysUnavailable ==
    exhausted
        => /\ ~model_loaded
           /\ (load_pc = "idle" /\ load_ret # NoLoadRet)
                 => /\ load_ret.op = "is_available" => load_ret.value = FALSE
                    /\ load_ret.op = "translate_text"
                          => load_ret.outcome = "returned" /\ load_ret.value = "echo"

(***************************************************************************)
(* Properties of a job whose source gives no text.                         *)
(***************************************************************************)
UnusableSources == {"missing", "corrupt", "empty"}

\* C25: a job whose source file is missing, cannot be converted or yields
\* no text unit never enters the translation stage or a later one, and
\* process_pdf returns a failed ProcessingResult for it that lists no
\* output document and names the cause.
C25_NoTextIsFatal ==
    \A t \in Tasks :
        (worker[t].pc # "idle" /\ worker[t].doc \in UnusableSources)
            => /\ worker[t].pc \notin {"p_translate", "p_output", "p_report", "p_result"}
               /\ worker[t].stage_failed \notin {"translate", "output"}
               /\ worker[t].output_files = <<>>
               /\ worker[t].pc = "returned"
                     => /\ ~worker[t].result.success
                        /\ worker[t].result.output_files = <<>>
                        /\ worker[t].result.error # "none"

\* C25 witness: a file was converted but gave no text unit, and the job has
\* returned its failed result from the extraction stage
C25_Witness ==
    \E t \in Tasks :
        /\ worker[t].pc = "returned"
        /\ worker[t].doc = "empty"
        /\ worker[t].stage_failed = "extract"
        /\ worker[t].error = "RuntimeError"
        /\ ~worker[t].result.success

(***************************************************************************)
(* The lifetime of a progress entry.                                       *)
(***************************************************************************)
\* C26 as stated: the entry of a streamed job that has reached a terminal
\* status is eventually removed from the progress map.
C26_TerminalEntryRemoved ==
    \A t \in Tasks :
        (streamed(t) /\ progress_storage[t].status \in TerminalStatus)
            ~> (progress_storage[t] = NoEntry)

(***************************************************************************)
(* A streamed job started with the parameters of the route.                *)
(***************************************************************************)
\* C27 as stated: a job started by the streaming route, whose source the
\* worker has not found unusable, ends with the status completed, the
\* percentage 100 and a result whose original and translated counts are
\* equal and not zero.
C27_FlatParametersComplete ==
    \A t \in Tasks :
        (/\ streamed(t)
         /\ progress_storage[t].status \in TerminalStatus
         /\ worker[t].doc \notin UnusableSources)
            => /\ progress_storage[t].status = "completed"
               /\ progress_storage[t].progress = 100
               /\ progress_storage[t].result # NoResult
               /\ progress_storage[t].result.original_text_count > 0
               /\ progress_storage[t].result.translated_text_count
                      = progress_storage[t].result.original_text_count

(***************************************************************************)
(* What a reader sees of a finished job.                                   *)
(***************************************************************************)
\* C28 as stated: whenever a client has read the percentage 100 from a
\* progress entry, it has read the status completed with it.
C28_HundredOnlyWithCompleted ==
    reader.last.progress = 100 => reader.last.status = "completed"

(***************************************************************************)
(* The counters of a progress entry.                                       *)
(***************************************************************************)
\* C29 as stated: in every progress entry completed_texts is at most
\* total_texts, neither counter ever decreases, and an entry with the
\* status completed has completed_texts equal to total_texts.
C29_CountersMonotone ==
    /\ [](\A t \in Tasks :
            progress_storage[t] # NoEntry
                => /\ progress_storage[t].completed_texts <= progress_storage[t].total_texts
                   /\ progress_storage[t].status = "completed"
                         => progress_storage[t].completed_texts
                                = progress_storage[t].total_texts)
    /\ [][\A t \in Tasks :
            (progress_storage[t] # NoEntry /\ progress_storage'[t] # NoEntry)
                => /\ progress_storage'[t].total_texts >= progress_storage[t].total_texts
                   /\ progress_storage'[t].completed_texts
                          >= progress_storage[t].completed_texts]_vars

(***************************************************************************)
(* The step of the batch loops.                                            *)
(***************************************************************************)
\* C30 as stated: whenever translate_batch steps through a non-empty list
\* of texts, under any configured ceiling, its step is at least 1, and the
\* call ends by returning.
C30_BatchStepAtLeastOne ==
    /\ (InBatch /\ b_texts # <<>>) => dynamic_batch_size >= 1
    /\ (ret # NoRet /\ ret.op = "translate_batch" /\ ret.arg # <<>>)
          => (dynamic_batch_size >= 1 /\ ret.exc # "ValueError")

====
